---- MODULE Spec2Model ----
(***************************************************************************)
(* Model of gemini_mcp.tools.GeminiTools: path validation against the      *)
(* allow-list, the temporary file listing, the argument vector handed to   *)
(* the process spawner, the child processes, the classification of the     *)
(* process result, and calls abandoned or interleaved at their awaits;     *)
(* and of gemini_mcp.server.GeminiMCPServer: its construction from the     *)
(* argument and the environment, and its call_tool handler.                *)
(*                                                                         *)
(* Strings are sequences of characters (one-character TLA+ strings, plus   *)
(* the token NUL for the zero byte, the token xFF for a byte that is not   *)
(* valid UTF-8, and a few tokens that stand for fixed template wording).   *)
(* A resolved path is a sequence of names, each name a string.             *)
(***************************************************************************)
EXTENDS Integers, Sequences, FiniteSets, TLC

(***************************************************************************)
(* Python values                                                           *)
(***************************************************************************)
\* Optional values: None is the empty set, a present value v is {v}.
None == {}

Some(v) == {v}

The(opt) == CHOOSE v \in opt : TRUE

\* "is not None" in place of truthiness.
Truthy_NotNone(opt) == opt # None

\* Python truthiness of an optional string or list: None and the empty
\* string / empty list are falsy.
Truthy(opt) == opt # None /\ The(opt) # <<>>

NUL == "NUL"

NL == "\n"

\* A byte that no UTF-8 text contains.
xFF == "xFF"

\* bytes.decode(): the text of the bytes, or UnicodeDecodeError when they
\* are not valid UTF-8.
Decode(bytes) ==
  IF \E i \in 1..Len(bytes) : bytes[i] = xFF
    THEN [ok |-> FALSE, text |-> <<>>]
    ELSE [ok |-> TRUE, text |-> bytes]

Whitespace == {" ", NL, "\t"}

RECURSIVE Concat(_)
\* "".join(parts)
Concat(parts) ==
  IF parts = <<>> THEN <<>> ELSE Head(parts) \o Concat(Tail(parts))

RECURSIVE Split(_, _)
\* s.split(sep) for a one-character separator: always at least one field.
Split(s, sep) ==
  IF s = <<>> THEN << <<>> >>
  ELSE LET rest == Split(Tail(s), sep)
       IN  IF Head(s) = sep
             THEN << <<>> >> \o rest
             ELSE << <<Head(s)>> \o Head(rest) >> \o Tail(rest)

\* s.startswith(prefix) on strings, and the same comparison on sequences
\* of path names.
StartsWith(s, prefix) ==
  /\ Len(prefix) <= Len(s)
  /\ SubSeq(s, 1, Len(prefix)) = prefix

(***************************************************************************)
(* pathlib                                                                 *)
(***************************************************************************)
\* Path(s): the parts of s between slashes, empty parts and "." dropped;
\* absolute when s starts with a slash.
PurePath(s) ==
  [abs   |-> s # <<>> /\ Head(s) = "/",
   parts |-> SelectSeq(Split(s, "/"), LAMBDA n : n # <<>> /\ n # <<".">>)]

RECURSIVE JoinNames(_)
JoinNames(p) ==
  IF p = <<>> THEN <<>> ELSE <<"/">> \o Head(p) \o JoinNames(Tail(p))

\* str(path) of an absolute path given by its names.
Str(p) == IF p = <<>> THEN <<"/">> ELSE JoinNames(p)

\* The parent directory; the root is its own parent.
Parent(p) == IF p = <<>> THEN <<>> ELSE SubSeq(p, 1, Len(p) - 1)

(***************************************************************************)
(* The file system the server runs on (fixed for a run of the model)       *)
(***************************************************************************)
nA == <<"a">>

nAB == <<"a", "b">>

nC == <<"c">>

nD == <<"d">>

nE == <<"e">>

nL == <<"l">>

nM == <<"m">>

nM2 == <<"m", "2">>

nP == <<"p">>

nX == <<"x">>

nY == <<"y">>

nXNL == <<"x", NL>>

\* Current working directory of the server process.
Cwd == <<nA, nD>>

\* Symbolic links: link path -> target (an absolute path, by names).
\* /a/l points out of /a; /a/m and /a/m2 point at each other.
Links ==
  ( <<nA, nL>> :> <<nE, nP>> ) @@
  ( <<nA, nM>> :> <<nA, nM2>> ) @@
  ( <<nA, nM2>> :> <<nA, nM>> )

\* Regular files and directories that exist (resolved paths).  The
\* directory /a/"x\n" holds e/p: a name may contain a newline.
Existing ==
  { <<>>, <<nA>>, <<nA, nX>>, <<nA, nD>>, <<nA, nD, nY>>,
    <<nAB>>, <<nAB, nX>>, <<nC>>, <<nE>>, <<nE, nP>>,
    <<nA, nXNL>>, <<nA, nXNL, nE>>, <<nA, nXNL, nE, nP>> }

Failed == [ok |-> FALSE, path |-> <<>>]

RECURSIVE Walk(_, _, _)
\* os.path.realpath: cur is the resolved prefix, rest the names still to
\* walk, seen the links being expanded (a link met again is a loop).
Walk(cur, rest, seen) ==
  IF rest = <<>> THEN [ok |-> TRUE, path |-> cur]
  ELSE LET n == Head(rest)
           next == Append(cur, n)
       IN  IF n = <<".", ".">> THEN Walk(Parent(cur), Tail(rest), seen)
           ELSE IF next \in DOMAIN Links
             THEN IF next \in seen THEN Failed
                  ELSE LET t == Walk(<<>>, Links[next], seen \cup {next})
                       IN  IF t.ok THEN Walk(t.path, Tail(rest), seen)
                           ELSE Failed
             ELSE Walk(next, Tail(rest), seen)

\* Path(s).resolve(): raises (ok = FALSE) on a zero byte or a link loop.
Resolve(s) ==
  IF \E i \in 1..Len(s) : s[i] = NUL THEN Failed
  ELSE LET p == PurePath(s)
       IN  Walk(IF p.abs THEN <<>> ELSE Cwd, p.parts, {})

\* Path.exists()
Exists(p) == p \in Existing

\* Containment decided on the text of the two paths.
RelativeTo_StringPrefix(p, other) == StartsWith(Str(p), Str(other))

\* PurePath.relative_to succeeds: other's names are a prefix of p's names.
RelativeTo(p, other) == StartsWith(p, other)

(***************************************************************************)
(* Errors                                                                  *)
(***************************************************************************)
\* An exception: its Python type, which message it carries (kind) and the
\* values formatted into the message.
Err(type, kind, path, allowed, text) ==
  [type |-> type, kind |-> kind, path |-> path, allowed |-> allowed,
   text |-> text]

NoErr == Err("none", "none", <<>>, <<>>, <<>>)

\* ValueError(f"Invalid file path: {file_path}")
InvalidPathError(file_path) ==
  Err("ValueError", "Invalid file path", file_path, <<>>, <<>>)

\* The message lists the first allowed directory only.
PathNotAllowedError_FirstOnly(file_path, dirs) ==
  Err("ValueError", "outside allowed directories", file_path,
      IF dirs = <<>> THEN <<>> ELSE <<Str(dirs[1])>>, <<>>)

\* ValueError(f"File path '{file_path}' is outside allowed directories.
\*              Allowed: {[str(d) for d in self.allowed_directories]}")
PathNotAllowedError(file_path, dirs) ==
  Err("ValueError", "outside allowed directories", file_path,
      [i \in 1..Len(dirs) |-> Str(dirs[i])], <<>>)

\* ValueError(f"File does not exist: {file_path}")
FileNotFoundError(file_path) ==
  Err("ValueError", "File does not exist", file_path, <<>>, <<>>)

\* RuntimeError("Gemini CLI authentication error: ...\nPlease run
\*               'gemini auth login' to authenticate.")
AuthenticationError(error_msg) ==
  Err("RuntimeError", "Gemini CLI authentication error", <<>>, <<>>, error_msg)

\* RuntimeError(f"Gemini CLI error: {error_msg}")
ExternalCommandError(error_msg) ==
  Err("RuntimeError", "Gemini CLI error", <<>>, <<>>, error_msg)

\* ValueError(f"Unknown tool: {name}")
UnknownToolError(name) ==
  Err("ValueError", "Unknown tool", <<>>, <<>>, name)

\* arguments[key] on a missing key
KeyError(key) == Err("KeyError", "KeyError", <<>>, <<>>, <<key>>)

\* Failures of the environment: mkstemp, the write, the read-back, the
\* spawn (OSError), communicate (any exception), cancellation.
OSError(what) == Err("OSError", what, <<>>, <<>>, <<>>)

\* bytes.decode() on bytes that are not UTF-8
UnicodeDecodeError == Err("UnicodeDecodeError", "decode", <<>>, <<>>, <<>>)

CommunicateException == Err("Exception", "communicate", <<>>, <<>>, <<>>)

CancelledError == Err("CancelledError", "cancelled", <<>>, <<>>, <<>>)

\* RuntimeError("Gemini CLI not found in PATH")
GeminiNotFoundError ==
  Err("RuntimeError", "Gemini CLI not found in PATH", <<>>, <<>>, <<>>)

\* What Path(d).resolve() raises for a directory that does not resolve.
ResolveError(d) == Err("ValueError", "resolve", d, <<>>, <<>>)

\* except Exception: every error but the cancellation, which is a
\* BaseException.
IsException(err) == err.type # "CancelledError"

\* repr of a list of strings: ['/a', '/c']
ListRepr(strings) ==
  <<"[">> \o Concat([i \in 1..Len(strings) |->
                       (IF i = 1 THEN <<>> ELSE <<",", " ">>)
                         \o <<"'">> \o strings[i] \o <<"'">>])
    \o <<"]">>

\* str(e): the message of the error.  A KeyError shows its key quoted; an
\* error of the environment shows the text the system gives it.
Message(err) ==
  CASE err.kind = "Invalid file path" ->
         <<"Invalid file path: ">> \o err.path
    [] err.kind = "outside allowed directories" ->
         <<"File path '">> \o err.path
           \o <<"' is outside allowed directories. Allowed: ">>
           \o ListRepr(err.allowed)
    [] err.kind = "File does not exist" ->
         <<"File does not exist: ">> \o err.path
    [] err.kind = "Gemini CLI authentication error" ->
         <<"Gemini CLI authentication error: ">> \o err.text
           \o <<NL, "Please run 'gemini auth login' to authenticate.">>
    [] err.kind = "Gemini CLI error" -> <<"Gemini CLI error: ">> \o err.text
    [] err.kind = "Unknown tool" -> <<"Unknown tool: ">> \o err.text
    [] err.kind = "KeyError" -> <<"'">> \o err.text \o <<"'">>
    [] OTHER -> <<"str(", err.type, ": ", err.kind, ")">>

(***************************************************************************)
(* State                                                                   *)
(***************************************************************************)
VARIABLES
  gemini_path,          \* self.gemini_path
  allowed_directories,  \* self.allowed_directories: resolved paths, in order
  calls,                \* slot -> the call running (or last run) in it
  tmpdir,               \* temporary files of live calls: name -> content
  leaked,               \* names of temporary files whose removal failed
  procs,                \* child processes: pid -> argument vector, result
  environ,              \* the environment: what shutil.which("gemini")
                        \* finds now, and GEMINI_MCP_ALLOWED_DIRS
  server                \* the GeminiMCPServer: whether it is constructed,
                        \* and the inputs its construction had

vars ==
  <<gemini_path, allowed_directories, calls, tmpdir, leaked, procs, environ,
    server>>

(***************************************************************************)
(* GeminiTools._validate_file_path                                         *)
(***************************************************************************)
\* Without the try around resolve(): the failure of the resolution is
\* reported by the containment check.
_validate_file_path_Unguarded(file_path) ==
  LET r == Resolve(file_path)
  IN  IF r.ok /\ \E i \in 1..Len(allowed_directories) :
                   RelativeTo(r.path, allowed_directories[i])
        THEN [ok |-> TRUE, path |-> r.path, err |-> NoErr]
      ELSE [ok |-> FALSE, path |-> <<>>,
            err |-> PathNotAllowedError(file_path, allowed_directories)]

\* The result of the call: the resolved path, or the error raised.
_validate_file_path(file_path) ==
  LET r == Resolve(file_path)
  IN  IF ~r.ok
        THEN [ok |-> FALSE, path |-> <<>>, err |-> InvalidPathError(file_path)]
      ELSE IF \E i \in 1..Len(allowed_directories) :
                RelativeTo(r.path, allowed_directories[i])
        THEN [ok |-> TRUE, path |-> r.path, err |-> NoErr]
      ELSE [ok |-> FALSE, path |-> <<>>,
            err |-> PathNotAllowedError(file_path, allowed_directories)]

(***************************************************************************)
(* The tools: from the arguments to a call of _run_gemini_command          *)
(***************************************************************************)
DEFAULT_GEMINI_MODEL == <<"gemini-2.5-pro">>

\* arguments.get(key, default)
Get(arguments, key, default) ==
  IF key \in DOMAIN arguments THEN arguments[key] ELSE default

\* What a tool does with its arguments: it calls _run_gemini_command
\* (kind "run"), returns a value at once, or raises.
RunCommand(prompt, model, files, stdin_input) ==
  [kind |-> "run", prompt |-> prompt, model |-> model, files |-> files,
   stdin_input |-> stdin_input, value |-> <<>>, err |-> NoErr]

ReturnValue(value) ==
  [kind |-> "return", prompt |-> <<>>, model |-> <<>>, files |-> None,
   stdin_input |-> None, value |-> value, err |-> NoErr]

Raise(err) ==
  [kind |-> "raise", prompt |-> <<>>, model |-> <<>>, files |-> None,
   stdin_input |-> None, value |-> <<>>, err |-> err]

\* gemini_prompt passing a files argument on, as gemini_research does.
_gemini_prompt_WithFiles(arguments) ==
  IF "prompt" \notin DOMAIN arguments THEN Raise(KeyError("prompt"))
  ELSE LET prompt == arguments["prompt"]
           model == Get(arguments, "model", DEFAULT_GEMINI_MODEL)
           context == Get(arguments, "context", <<>>)
           full_prompt == IF context # <<>>
                            THEN context \o <<NL, NL>> \o prompt
                            ELSE prompt
       IN  RunCommand(full_prompt, model,
                      Some(Get(arguments, "files", <<>>)), None)

_gemini_prompt(arguments) ==
  IF "prompt" \notin DOMAIN arguments THEN Raise(KeyError("prompt"))
  ELSE LET prompt == arguments["prompt"]
           model == Get(arguments, "model", DEFAULT_GEMINI_MODEL)
           context == Get(arguments, "context", <<>>)
           full_prompt == IF context # <<>>
                            THEN context \o <<NL, NL>> \o prompt
                            ELSE prompt
       IN  RunCommand(full_prompt, model, None, None)

ResearchHead ==
  <<"Please research the following topic and provide a comprehensive analysis:",
    NL, NL, "Topic: ">>

ResearchTail ==
  <<NL, NL, "Please include:", NL, "1. Overview and background", NL,
    "2. Key findings and insights", NL, "3. Relevant details and examples", NL,
    "4. Conclusions and recommendations", NL, NL, "Be thorough but concise.">>

_gemini_research(arguments) ==
  IF "topic" \notin DOMAIN arguments THEN Raise(KeyError("topic"))
  ELSE LET topic == arguments["topic"]
           files == Get(arguments, "files", <<>>)
           model == Get(arguments, "model", DEFAULT_GEMINI_MODEL)
           research_prompt == ResearchHead \o topic \o ResearchTail
       IN  RunCommand(research_prompt, model, Some(files), None)

AnalysisTypes ==
  {<<"review">>, <<"explain">>, <<"optimize">>, <<"security">>, <<"test">>}

\* One prompt for every type of analysis.
analysis_prompts_Generic(analysis_type) == <<"Please analyze this code.">>

analysis_prompts(analysis_type) ==
  CASE analysis_type = <<"review">> ->
         <<"Please review this code and identify potential issues, bugs, or areas for improvement.">>
    [] analysis_type = <<"explain">> ->
         <<"Please explain what this code does in detail, including its purpose and how it works.">>
    [] analysis_type = <<"optimize">> ->
         <<"Please suggest optimizations for this code to improve performance, readability, or maintainability.">>
    [] analysis_type = <<"security">> ->
         <<"Please analyze this code for ", "security vulnerabilities",
           " and suggest fixes.">>
    [] analysis_type = <<"test">> ->
         <<"Please suggest test cases and testing strategies for this code.">>

\* analysis_type read with a default, as the optional arguments are.
_gemini_analyze_code_Lenient(arguments) ==
  IF "files" \notin DOMAIN arguments THEN Raise(KeyError("files"))
  ELSE RunCommand(<<"Please analyze this code.">>,
                  Get(arguments, "model", DEFAULT_GEMINI_MODEL),
                  Some(arguments["files"]), None)

_gemini_analyze_code(arguments) ==
  IF "files" \notin DOMAIN arguments THEN Raise(KeyError("files"))
  ELSE IF "analysis_type" \notin DOMAIN arguments
    THEN Raise(KeyError("analysis_type"))
  ELSE LET files == arguments["files"]
           analysis_type == arguments["analysis_type"]
           specific_question == Get(arguments, "specific_question", <<>>)
           model == Get(arguments, "model", DEFAULT_GEMINI_MODEL)
           base_prompt == IF analysis_type \in AnalysisTypes
                            THEN analysis_prompts(analysis_type)
                            ELSE <<"Please analyze this code.">>
           prompt == IF specific_question # <<>>
                       THEN base_prompt \o <<NL, NL, "Specific question: ">>
                              \o specific_question
                       ELSE base_prompt
       IN  RunCommand(prompt, model, Some(files), None)

SummaryTypes ==
  {<<"brief">>, <<"detailed">>, <<"bullet_points">>, <<"executive">>}

summary_prompts(summary_type) ==
  CASE summary_type = <<"brief">> ->
         <<"Please provide a brief summary of the following content in 2-3 sentences.">>
    [] summary_type = <<"detailed">> ->
         <<"Please provide a detailed summary of the following content, covering all main points.">>
    [] summary_type = <<"bullet_points">> ->
         <<"Please summarize the following content as bullet points.">>
    [] summary_type = <<"executive">> ->
         <<"Please provide an executive summary of the following content suitable for decision makers.">>

SummarizeGuidance ==
  <<"Error: Either content or files must be provided for summarization.">>

\* The summary asked for without looking at what was provided.
_gemini_summarize_NoCheck(arguments) ==
  LET content == Get(arguments, "content", <<>>)
      files == Get(arguments, "files", <<>>)
      model == Get(arguments, "model", DEFAULT_GEMINI_MODEL)
  IN  IF content # <<>>
        THEN RunCommand(summary_prompts(<<"brief">>)
                          \o <<NL, NL, "Content:", NL>> \o content,
                        model, None, None)
      ELSE RunCommand(summary_prompts(<<"brief">>), model, Some(files), None)

\* files looked at before content.
_gemini_summarize_FilesFirst(arguments) ==
  LET content == Get(arguments, "content", <<>>)
      files == Get(arguments, "files", <<>>)
      summary_type == Get(arguments, "summary_type", <<"brief">>)
      model == Get(arguments, "model", DEFAULT_GEMINI_MODEL)
      prompt == IF summary_type \in SummaryTypes
                  THEN summary_prompts(summary_type)
                  ELSE summary_prompts(<<"brief">>)
  IN  IF content = <<>> /\ files = <<>> THEN ReturnValue(SummarizeGuidance)
      ELSE IF files # <<>>
        THEN RunCommand(prompt, model, Some(files), None)
      ELSE RunCommand(prompt \o <<NL, NL, "Content:", NL>> \o content,
                      model, None, None)

_gemini_summarize(arguments) ==
  LET content == Get(arguments, "content", <<>>)
      files == Get(arguments, "files", <<>>)
      summary_type == Get(arguments, "summary_type", <<"brief">>)
      model == Get(arguments, "model", DEFAULT_GEMINI_MODEL)
      prompt == IF summary_type \in SummaryTypes
                  THEN summary_prompts(summary_type)
                  ELSE summary_prompts(<<"brief">>)
  IN  IF content = <<>> /\ files = <<>> THEN ReturnValue(SummarizeGuidance)
      ELSE IF content # <<>>
        THEN RunCommand(prompt \o <<NL, NL, "Content:", NL>> \o content,
                        model, None, None)
      ELSE RunCommand(prompt, model, Some(files), None)

\* A name that is not known taken for gemini_prompt.
call_tool_DefaultPrompt(name, arguments) ==
  CASE name = "gemini_research" -> _gemini_research(arguments)
    [] name = "gemini_analyze_code" -> _gemini_analyze_code(arguments)
    [] name = "gemini_summarize" -> _gemini_summarize(arguments)
    [] OTHER -> _gemini_prompt(arguments)

call_tool(name, arguments) ==
  CASE name = "gemini_prompt" -> _gemini_prompt(arguments)
    [] name = "gemini_research" -> _gemini_research(arguments)
    [] name = "gemini_analyze_code" -> _gemini_analyze_code(arguments)
    [] name = "gemini_summarize" -> _gemini_summarize(arguments)
    [] OTHER -> Raise(UnknownToolError(<<name>>))

(***************************************************************************)
(* str methods used on the process output                                  *)
(***************************************************************************)
Uppers == <<"A", "B", "C", "D", "E", "F", "G", "H", "I", "J", "K", "L", "M", "N", "O", "P", "Q", "R", "S", "T", "U", "V", "W", "X", "Y", "Z">>

Lowers == <<"a", "b", "c", "d", "e", "f", "g", "h", "i", "j", "k", "l", "m", "n", "o", "p", "q", "r", "s", "t", "u", "v", "w", "x", "y", "z">>

\* str.lower(), character by character
LowerChar(ch) ==
  IF \E i \in 1..Len(Uppers) : Uppers[i] = ch
    THEN Lowers[CHOOSE i \in 1..Len(Uppers) : Uppers[i] = ch]
    ELSE ch

Lower(s) == [i \in 1..Len(s) |-> LowerChar(s[i])]

RECURSIVE LStrip(_)
LStrip(s) ==
  IF s # <<>> /\ Head(s) \in Whitespace THEN LStrip(Tail(s)) ELSE s

RECURSIVE RStrip(_)
RStrip(s) ==
  IF s # <<>> /\ s[Len(s)] \in Whitespace
    THEN RStrip(SubSeq(s, 1, Len(s) - 1)) ELSE s

\* str.strip()
Strip(s) == RStrip(LStrip(s))

\* sub in s
Contains(s, sub) ==
  \E i \in 0..(Len(s) - Len(sub)) : SubSeq(s, i + 1, i + Len(sub)) = sub

\* The phrases that classify a failure as an authentication failure.
AuthPhrases ==
  { <<"n", "o", "t", " ", "a", "u", "t", "h", "e", "n", "t", "i", "c", "a", "t", "e", "d">>,
    <<"l", "o", "g", "i", "n", " ", "r", "e", "q", "u", "i", "r", "e", "d">>,
    <<"a", "u", "t", "h">>,
    <<"c", "r", "e", "d", "e", "n", "t", "i", "a", "l", "s">> }

\* What the error of a nonzero exit is, from the decoded standard error.
ClassifyFailure(stderr) ==
  LET error_msg == Strip(stderr)
  IN  IF \E phrase \in AuthPhrases : Contains(Lower(error_msg), phrase)
        THEN AuthenticationError(error_msg)
        ELSE ExternalCommandError(error_msg)

(***************************************************************************)
(* Bounds and inputs                                                       *)
(***************************************************************************)
\* Longest files list a request carries.
MaxFiles == 2

\* Names mkstemp can draw from: with all of them on disk it fails.
MaxTemp == 2

\* Calls that can be in flight together.
NSlots == 2

Slots == 1..NSlots

TempNames == 1..MaxTemp

\* Child processes that can exist together: beyond it the spawn fails.
MaxProc == 2

Pids == 1..MaxProc

\* Raw paths, as a caller writes them.
fInside == <<"/", "a", "/", "x">>

fSub == <<"/", "a", "/", "d", "/", "y">>

fRoot == <<"/", "a">>

fSibling == <<"/", "a", "b", "/", "x">>

fOutside == <<"/", "e", "/", "p">>

fTraversal == <<"/", "a", "/", ".", ".", "/", "e", "/", "p">>

fRelIn == <<"y">>

fRelUp == <<".", ".", "/", "x">>

fRelOut == <<".", ".", "/", ".", ".", "/", "e", "/", "p">>

fLink == <<"/", "a", "/", "l">>

fMissing == <<"/", "a", "/", "d", "/", "q">>

fOutMissing == <<"/", "e", "/", "q">>

fNewline == <<"/", "a", "/", "x", NL, "/", "e", "/", "p">>

fNul == <<"/", "a", "/", NUL, "x">>

fLoop == <<"/", "a", "/", "m">>

fDots == <<"/", "a", "/", ".", "/", "d", "/", "/", "y">>

RawPaths ==
  { fInside, fSub, fRoot, fSibling, fOutside, fTraversal, fRelIn, fRelUp,
    fRelOut, fLink, fMissing, fOutMissing, fNewline, fNul, fLoop, fDots }

\* The paths files lists are made of.
ListPaths ==
  { fInside, fRelIn, fMissing, fOutside, fOutMissing, fNewline, fNul }

FileLists == UNION { [1..n -> ListPaths] : n \in 0..MaxFiles }

\* The allowed_directories argument of the constructor.
AllowConfigs == { << <<"/", "a">> >>, << <<"/", "c">>, <<"/", "a", "/", "d", "/", ".", ".", "/", "d">> >> }

pPlain == <<"h", "i">>

pMeta == <<"'", ";", " ", "r", "m", " ", "$", "(", "i", "d", ")", " ", "|", "x", " ", "&", NL>>

Prompts == { pPlain, pMeta, <<>> }

mOther == <<"g", " ", "2">>

Models == { DEFAULT_GEMINI_MODEL, mOther }

sOverride == <<"/", "e", "/", "p", NL>>

ValidateRequests == { [kind |-> "validate", raw |-> r] : r \in RawPaths }

RunRequest(prompt, model, files, stdin_input) ==
  [kind |-> "run", prompt |-> prompt, model |-> model, files |-> files,
   stdin_input |-> stdin_input]

\* Direct calls of _run_gemini_command.
RunRequests ==
  { RunRequest(p, m, None, None) : p \in Prompts, m \in Models }
  \cup { RunRequest(pPlain, DEFAULT_GEMINI_MODEL, Some(fl), None) :
           fl \in FileLists }
  \cup { RunRequest(pMeta, mOther, f, i) :
           f \in { None, Some(<<fRelIn>>) },
           i \in { Some(<<>>), Some(sOverride) } }

ToolRequest(name, arguments) ==
  [kind |-> "tool", name |-> name, arguments |-> arguments]

PromptArguments ==
  { <<>>,
    "prompt" :> pPlain,
    "context" :> pMeta,
    ("prompt" :> pPlain) @@ ("context" :> pMeta),
    ("prompt" :> pMeta) @@ ("context" :> <<>>),
    ("prompt" :> pPlain) @@ ("model" :> mOther),
    ("prompt" :> pPlain) @@ ("files" :> <<fRelIn>>) }

ResearchArguments ==
  { <<>>,
    "topic" :> pPlain,
    ("topic" :> pMeta) @@ ("model" :> mOther) }
  \cup { ("topic" :> pPlain) @@ ("files" :> fl) : fl \in FileLists }

AnalyzeArguments ==
  { <<>>,
    "files" :> <<fRelIn>>,
    "analysis_type" :> <<"review">>,
    ("files" :> <<fRelIn>>) @@ ("analysis_type" :> <<"review">>)
      @@ ("specific_question" :> pMeta) @@ ("model" :> mOther),
    ("files" :> <<fRelIn>>) @@ ("analysis_type" :> <<"explain">>)
      @@ ("specific_question" :> <<>>) }
  \cup { ("files" :> fl) @@ ("analysis_type" :> <<"security">>) :
           fl \in FileLists }
  \cup { ("files" :> <<fRelIn>>) @@ ("analysis_type" :> t) :
           t \in AnalysisTypes \cup { <<"other">> } }

SummarizeArguments ==
  { <<>>,
    "content" :> pPlain,
    "content" :> <<>>,
    "files" :> <<>>,
    ("content" :> pPlain) @@ ("files" :> <<fOutside>>),
    ("content" :> <<>>) @@ ("files" :> <<fRelIn>>),
    ("content" :> pMeta) @@ ("summary_type" :> <<"detailed">>)
      @@ ("model" :> mOther) }
  \cup { "files" :> fl : fl \in FileLists }
  \cup { ("files" :> <<fRelIn>>) @@ ("summary_type" :> t) :
           t \in SummaryTypes \cup { <<"other">> } }

ToolRequests ==
  { ToolRequest("gemini_prompt", a) : a \in PromptArguments }
  \cup { ToolRequest("gemini_research", a) : a \in ResearchArguments }
  \cup { ToolRequest("gemini_analyze_code", a) : a \in AnalyzeArguments }
  \cup { ToolRequest("gemini_summarize", a) : a \in SummarizeArguments }
  \cup { ToolRequest(n, a) :
           n \in { "unknown_tool", "Gemini_Prompt" },
           a \in { <<>>, "files" :> <<fOutside>>, "prompt" :> pPlain } }

\* What the external process can answer.
ProcResult(returncode, stdout, stderr) ==
  [returncode |-> returncode, stdout |-> stdout, stderr |-> stderr]

ProcResults ==
  { ProcResult(0, <<" ", "o", "k", NL>>, <<>>),
    ProcResult(0, <<"o", "k">>, <<"A", "u", "t", "h">>),
    ProcResult(1, <<>>, <<"N", "o", "t", " ", "A", "u", "t", "h", "e", "n", "t", "i", "c", "a", "t", "e", "d", NL>>),
    ProcResult(1, <<"x">>, <<" ", "b", "o", "o", "m", " ">>),
    ProcResult(1, <<>>, <<"B", "a", "d", " ", "C", "R", "E", "D", "E", "N", "T", "I", "A", "L", "S">>),
    ProcResult(1, <<>>, <<>>),
    ProcResult(0, <<xFF, "o", "k">>, <<>>),
    ProcResult(1, <<"x">>, <<xFF, "b", "o", "o", "m">>),
    ProcResult(0, <<"o", "k">>, <<xFF>>) }

(***************************************************************************)
(* A call: the frame of _validate_file_path, _run_gemini_command or        *)
(* call_tool running in a slot                                             *)
(***************************************************************************)
Pending == [kind |-> "pending", value |-> <<>>, err |-> NoErr]

Returned(value) == [kind |-> "return", value |-> value, err |-> NoErr]

Raised(err) == [kind |-> "raise", value |-> <<>>, err |-> err]

NoRequest == [kind |-> "none"]

\* pc: where the call is suspended ("reading": in the read-back of the
\* listing, "spawning": in create_subprocess_exec, "communicating": in
\* process.communicate) or "done"; run: the parameters
\* _run_gemini_command was entered with; argv: what was handed to
\* create_subprocess_exec; communicated/input: whether communicate was
\* called and with which input; pid: the child process of the call; proc:
\* what communicate returned; log: the events of the call, in order.
NewCall(req) ==
  [req |-> req, pc |-> "idle", run |-> None, cmd |-> <<>>,
   stdin_input |-> None, temp_file_list |-> None, validated_paths |-> <<>>,
   argv |-> None, communicated |-> FALSE, input |-> None, pid |-> None,
   proc |-> None,
   outcome |-> Pending, response |-> Pending, log |-> <<>>]

\* os.path.exists of a temporary file
OnDisk(name, td, lk) == name \in DOMAIN td \cup lk

Without(td, name) == [n \in DOMAIN td \ {name} |-> td[n]]

\* Cleanup on the normal path only: an exception skips it.
Finally_OnlyOnSuccess(cl, out, rmok, td, lk) ==
  LET present == cl.temp_file_list # None
                   /\ OnDisk(The(cl.temp_file_list), td, lk)
                   /\ out.kind # "raise"
      name == The(cl.temp_file_list)
  IN  [call   |-> [cl EXCEPT !.pc = "done", !.outcome = out,
                     !.log = IF present
                               THEN Append(@, IF rmok THEN "removed"
                                                      ELSE "remove_failed")
                               ELSE @],
       tmpdir |-> IF present THEN Without(td, name) ELSE td,
       leaked |-> IF present /\ ~rmok THEN lk \cup {name} ELSE lk]

\* The failure of os.remove raised in place of the outcome of the call.
Finally_RaisesRemovalFailure(cl, out, rmok, td, lk) ==
  LET present == cl.temp_file_list # None
                   /\ OnDisk(The(cl.temp_file_list), td, lk)
      name == The(cl.temp_file_list)
  IN  [call   |-> [cl EXCEPT !.pc = "done",
                     !.outcome = IF present /\ ~rmok
                                   THEN Raised(OSError("remove")) ELSE out,
                     !.log = IF present
                               THEN Append(@, IF rmok THEN "removed"
                                                      ELSE "remove_failed")
                               ELSE @],
       tmpdir |-> IF present THEN Without(td, name) ELSE td,
       leaked |-> IF present /\ ~rmok THEN lk \cup {name} ELSE lk]

\* The finally block, then the call ends with outcome out.  rmok: whether
\* os.remove succeeds; when it raises, the failure is logged and the file
\* stays (from then on it is tracked by name only, in leaked).
Finally(cl, out, rmok, td, lk) ==
  LET present == cl.temp_file_list # None
                   /\ OnDisk(The(cl.temp_file_list), td, lk)
      name == The(cl.temp_file_list)
  IN  [call   |-> [cl EXCEPT !.pc = "done", !.outcome = out,
                     !.log = IF present
                               THEN Append(@, IF rmok THEN "removed"
                                                      ELSE "remove_failed")
                               ELSE @],
       tmpdir |-> IF present THEN Without(td, name) ELSE td,
       leaked |-> IF present /\ ~rmok THEN lk \cup {name} ELSE lk]

\* Control leaves the step with the call suspended at pc.
Suspend(cl, pc, td, lk) ==
  [call |-> [cl EXCEPT !.pc = pc], tmpdir |-> td, leaked |-> lk]

RECURSIVE ValidateFiles_SkipInvalid(_, _)
\* Entries that fail are left out and the rest is used.
ValidateFiles_SkipInvalid(files, validated_paths) ==
  IF files = <<>>
    THEN [ok |-> TRUE, validated_paths |-> validated_paths, err |-> NoErr]
  ELSE LET v == _validate_file_path(Head(files))
       IN  IF v.ok /\ Exists(v.path)
             THEN ValidateFiles_SkipInvalid(
                    Tail(files), Append(validated_paths, Str(v.path)))
             ELSE ValidateFiles_SkipInvalid(Tail(files), validated_paths)

RECURSIVE ValidateFiles_ExistsFirst(_, _)
\* The existence check made before the containment check.
ValidateFiles_ExistsFirst(files, validated_paths) ==
  IF files = <<>>
    THEN [ok |-> TRUE, validated_paths |-> validated_paths, err |-> NoErr]
  ELSE LET file_path == Head(files)
           r == Resolve(file_path)
           v == _validate_file_path(file_path)
       IN  IF r.ok /\ ~Exists(r.path)
             THEN [ok |-> FALSE, validated_paths |-> validated_paths,
                   err |-> FileNotFoundError(file_path)]
           ELSE IF ~v.ok
             THEN [ok |-> FALSE, validated_paths |-> validated_paths,
                   err |-> v.err]
           ELSE ValidateFiles_ExistsFirst(
                  Tail(files), Append(validated_paths, Str(v.path)))

RECURSIVE ValidateFiles(_, _)
\* The loop over files: each entry is validated, then checked to exist,
\* before the next entry is looked at.
ValidateFiles(files, validated_paths) ==
  IF files = <<>>
    THEN [ok |-> TRUE, validated_paths |-> validated_paths, err |-> NoErr]
  ELSE LET file_path == Head(files)
           v == _validate_file_path(file_path)
       IN  IF ~v.ok
             THEN [ok |-> FALSE, validated_paths |-> validated_paths,
                   err |-> v.err]
           ELSE IF ~Exists(v.path)
             THEN [ok |-> FALSE, validated_paths |-> validated_paths,
                   err |-> FileNotFoundError(file_path)]
           ELSE ValidateFiles(Tail(files),
                              Append(validated_paths, Str(v.path)))

\* "\n".join(validated_paths): no newline after the last path.
Listing_Joined(validated_paths) ==
  Concat([i \in 1..Len(validated_paths) |->
            IF i = 1 THEN validated_paths[i]
            ELSE <<NL>> \o validated_paths[i]])

\* for path in validated_paths: f.write(f"{path}\n")
Listing(validated_paths) ==
  Concat([i \in 1..Len(validated_paths) |-> validated_paths[i] \o <<NL>>])

\* The executable looked up again for every command.
BuildCmd_LookupAgain(model, prompt) ==
  <<IF Truthy(environ.which) THEN The(environ.which) ELSE <<>>,
    <<"-", "m">>, model, <<"-", "p">>, prompt>>

\* cmd = [self.gemini_path, "-m", model, "-p", prompt]
BuildCmd(model, prompt) ==
  <<gemini_path, <<"-", "m">>, model, <<"-", "p">>, prompt>>

\* The command joined with spaces and split again by a shell.
SpawnArgs_Shell(cmd) ==
  Split(Concat([i \in 1..Len(cmd) |->
                  IF i = 1 THEN cmd[i] ELSE <<" ">> \o cmd[i]]), " ")

\* create_subprocess_exec(*cmd, ...): the argument vector it receives.
SpawnArgs(cmd) == cmd

\* _run_gemini_command from its entry to its first suspension.  name: the
\* name mkstemp picks (None: none is free); fault: what fails in the
\* environment ("mkstemp", "write" or "none").
RunEnter(cl0, prompt, model, files, stdin_input, name, fault, rmok, td, lk) ==
  LET cl1 == [cl0 EXCEPT
                !.run = Some([prompt |-> prompt, model |-> model,
                              files |-> files, stdin_input |-> stdin_input]),
                !.cmd = BuildCmd(model, prompt),
                !.stdin_input = stdin_input]
  IN  IF ~Truthy(files)
        THEN Suspend([cl1 EXCEPT !.argv = Some(SpawnArgs(cl1.cmd))],
                     "spawning", td, lk)
      ELSE LET v == ValidateFiles(The(files), <<>>)
               cl2 == [cl1 EXCEPT !.validated_paths = v.validated_paths]
           IN  IF ~v.ok THEN Finally(cl2, Raised(v.err), rmok, td, lk)
               ELSE LET cl3 == [cl2 EXCEPT !.log = Append(@, "validated")]
                    IN  IF fault = "mkstemp" \/ name = None
                          THEN Finally(cl3, Raised(OSError("mkstemp")),
                                       rmok, td, lk)
                        ELSE LET n == The(name)
                                 cl4 == [cl3 EXCEPT
                                           !.temp_file_list = name,
                                           !.log = Append(@, "created")]
                             IN  IF fault = "write"
                                   THEN Finally(
                                          [cl4 EXCEPT
                                             !.log = Append(@, "closed")],
                                          Raised(OSError("write")), rmok,
                                          td @@ (n :> <<>>), lk)
                                   ELSE Suspend(
                                          [cl4 EXCEPT
                                             !.log = @ \o <<"written",
                                                            "closed">>],
                                          "reading",
                                          (n :> Listing(v.validated_paths))
                                            @@ td,
                                          lk)

\* The read-back of the listing ends: file_list_content is read, "-a" is
\* appended, stdin_input defaults to the listing, and the spawn is asked.
ReadBack(cl, ok, rmok, td, lk) ==
  IF ~ok THEN Finally(cl, Raised(OSError("read")), rmok, td, lk)
  ELSE LET file_list_content == td[The(cl.temp_file_list)]
           cmd == Append(cl.cmd, <<"-", "a">>)
       IN  Suspend([cl EXCEPT
                      !.cmd = cmd,
                      !.stdin_input = IF Truthy(@) THEN @
                                      ELSE Some(file_list_content),
                      !.log = Append(@, "read"),
                      !.argv = Some(SpawnArgs(cmd))],
                   "spawning", td, lk)

\* The input handed over whatever it is.
CommunicateInput_Always(stdin_input) == stdin_input

\* input=stdin_input.encode() if stdin_input else None
CommunicateInput(stdin_input) ==
  IF Truthy(stdin_input) THEN stdin_input ELSE None

\* The listing removed as soon as the process is spawned.
Spawned_RemoveEarly(cl, pid, rmok, td, lk) ==
  IF pid = None THEN Finally(cl, Raised(OSError("spawn")), rmok, td, lk)
  ELSE LET present == cl.temp_file_list # None
       IN  Suspend([cl EXCEPT
                      !.log = IF present THEN @ \o <<"spawned", "removed">>
                              ELSE Append(@, "spawned"),
                      !.pid = pid,
                      !.communicated = TRUE,
                      !.input = IF Truthy(cl.stdin_input)
                                  THEN cl.stdin_input ELSE None],
                   "communicating",
                   IF present THEN Without(td, The(cl.temp_file_list))
                   ELSE td,
                   lk)

\* create_subprocess_exec ends: the process pid exists and communicate is
\* called, or the spawn failed (pid is None).
Spawned(cl, pid, rmok, td, lk) ==
  IF pid = None THEN Finally(cl, Raised(OSError("spawn")), rmok, td, lk)
  ELSE Suspend([cl EXCEPT
                  !.log = Append(@, "spawned"),
                  !.pid = pid,
                  !.communicated = TRUE,
                  !.input = CommunicateInput(cl.stdin_input)],
               "communicating", td, lk)

\* The outcome of the call from the process result: only the stream that
\* is used is decoded.
ResultOutcome(res) ==
  IF res.returncode # 0
    THEN LET stderr == Decode(res.stderr)
         IN  IF ~stderr.ok THEN Raised(UnicodeDecodeError)
             ELSE Raised(ClassifyFailure(stderr.text))
  ELSE LET stdout == Decode(res.stdout)
       IN  IF ~stdout.ok THEN Raised(UnicodeDecodeError)
           ELSE Returned(Strip(stdout.text))

\* A nonzero exit answered by another attempt.
Communicated_Retry(cl, res, rmok, td, lk) ==
  IF res = None THEN Finally(cl, Raised(CommunicateException), rmok, td, lk)
  ELSE IF The(res).returncode # 0
    THEN Suspend([cl EXCEPT !.log = Append(@, "awaited")], "spawning", td, lk)
  ELSE Finally([cl EXCEPT !.log = Append(@, "awaited"), !.proc = res],
               ResultOutcome(The(res)), rmok, td, lk)

\* communicate ends: with the result of the process (Some(res)) or with
\* an exception (None).
Communicated(cl, res, rmok, td, lk) ==
  IF res = None THEN Finally(cl, Raised(CommunicateException), rmok, td, lk)
  ELSE Finally([cl EXCEPT !.log = Append(@, "awaited"), !.proc = res],
               ResultOutcome(The(res)), rmok, td, lk)

\* The child process create_subprocess_exec starts: it runs until it has
\* a result.
NewProcess(argv) == [argv |-> argv, result |-> None]

\* The result of whichever process has exited.
WaitResult_AnyProcess(cl, ps) ==
  LET exited == { p \in DOMAIN ps : ps[p].result # None }
  IN  IF exited = {} THEN None
      ELSE ps[CHOOSE p \in exited : \A q \in exited : p <= q].result

\* What process.communicate() has to return: the result of the process
\* the call spawned (None while it runs).
WaitResult(cl, ps) == ps[The(cl.pid)].result

\* The child killed when the call is abandoned.
AbandonProcs_Kill(cl, ps) ==
  IF cl.pid # None /\ The(cl.pid) \in DOMAIN ps
       /\ ps[The(cl.pid)].result = None
    THEN [ps EXCEPT ![The(cl.pid)].result = Some(ProcResult(-9, <<>>, <<>>))]
    ELSE ps

\* What the call does to the processes when it is abandoned: nothing, the
\* finally block removes the listing only.
AbandonProcs(cl, ps) == ps

\* CancelledError raised at the await the call is suspended in.
Cancelled(cl, rmok, td, lk) ==
  Finally(cl, Raised(CancelledError), rmok, td, lk)

(***************************************************************************)
(* Construction                                                            *)
(***************************************************************************)
\* Where the gemini executable is when the server starts.
WhichGemini == <<"/usr/local/bin/gemini">>

\* shutil.which("gemini"): the path found in the environment, or None.
which(env) == env.which

\* GeminiTools.__init__: [Path(d).resolve() for d in allowed_directories]
ResolvedDirectories(directories) ==
  [i \in 1..Len(directories) |-> Resolve(directories[i]).path]

\* os.pathsep
PathSep == ":"

RECURSIVE StripNonEmpty(_)
\* [d.strip() for d in fields if d.strip()]
StripNonEmpty(fields) ==
  IF fields = <<>> THEN <<>>
  ELSE (IF Strip(Head(fields)) # <<>> THEN <<Strip(Head(fields))>> ELSE <<>>)
         \o StripNonEmpty(Tail(fields))

\* The directories named by GEMINI_MCP_ALLOWED_DIRS.
EnvDirectories(env_dirs) == StripNonEmpty(Split(env_dirs, PathSep))

\* The environment variable looked at before the argument.
ServerDirectories_EnvFirst(arg, env) ==
  IF Truthy(env.dirs) THEN EnvDirectories(The(env.dirs))
  ELSE IF arg # None THEN The(arg)
  ELSE <<Str(Cwd)>>

\* GeminiMCPServer.__init__: the list handed to GeminiTools.  arg is the
\* allowed_directories argument (None when it is not given).
ServerDirectories(arg, env) ==
  IF arg # None THEN The(arg)
  ELSE IF Truthy(env.dirs) THEN EnvDirectories(The(env.dirs))
  ELSE <<Str(Cwd)>>

\* GeminiTools.__init__(allowed_directories): the attributes of the new
\* instance, or the error raised (there is no instance then, and no
\* gemini_path: the empty string stands for that).
GeminiTools(directories, env) ==
  IF ~Truthy(which(env))
    THEN [ok |-> FALSE, gemini_path |-> <<>>, allowed_directories |-> <<>>,
          err |-> GeminiNotFoundError]
  ELSE IF directories = None
    THEN [ok |-> TRUE, gemini_path |-> The(which(env)),
          allowed_directories |-> <<Cwd>>, err |-> NoErr]
  ELSE IF \E i \in 1..Len(The(directories)) :
            ~Resolve(The(directories)[i]).ok
    THEN [ok |-> FALSE, gemini_path |-> <<>>, allowed_directories |-> <<>>,
          err |-> ResolveError(
                    The(directories)[
                      CHOOSE i \in 1..Len(The(directories)) :
                        /\ ~Resolve(The(directories)[i]).ok
                        /\ \A j \in 1..(i - 1) :
                             Resolve(The(directories)[j]).ok])]
  ELSE [ok |-> TRUE, gemini_path |-> The(which(env)),
        allowed_directories |-> ResolvedDirectories(The(directories)),
        err |-> NoErr]

\* No GeminiMCPServer yet.
NoServer ==
  [state |-> "none", arg |-> None, env |-> [which |-> None, dirs |-> None],
   error |-> NoErr]

\* GeminiMCPServer(allowed_directories=arg) in the environment env: the
\* instance of GeminiTools it holds, and what became of the construction.
Constructed(arg, env) ==
  LET tools == GeminiTools(Some(ServerDirectories(arg, env)), env)
  IN  [gemini_path |-> tools.gemini_path,
       allowed_directories |-> tools.allowed_directories,
       server |-> [state |-> IF tools.ok THEN "ready" ELSE "failed",
                   arg |-> arg, env |-> env, error |-> tools.err]]

\* The environment of a server started with its directories given.
InitEnviron == [which |-> Some(WhichGemini), dirs |-> None]

\* A server constructed with one of AllowConfigs, no call made yet.
Init ==
  /\ environ = InitEnviron
  /\ \E d \in AllowConfigs :
       LET k == Constructed(Some(d), InitEnviron)
       IN  /\ gemini_path = k.gemini_path
           /\ allowed_directories = k.allowed_directories
           /\ server = k.server
  /\ calls = [c \in Slots |-> NewCall(NoRequest)]
  /\ tmpdir = <<>>
  /\ leaked = {}
  /\ procs = <<>>

(***************************************************************************)
(* Actions                                                                 *)
(***************************************************************************)
\* TextContent(type="text", text=text)
TextContent(text) == [type |-> "text", text |-> text]

\* The handler with no try around the tool call.
Respond_Reraise(out) ==
  IF out.kind = "return" THEN Returned(<<TextContent(out.value)>>)
  ELSE Raised(out.err)

\* The try/except of the handler around tools.call_tool: the result as
\* one text item, an Exception as one text item "Error: " and its
\* message; what is not an Exception goes on to the caller.
Respond(out) ==
  IF out.kind = "return" THEN Returned(<<TextContent(out.value)>>)
  ELSE IF IsException(out.err)
    THEN Returned(<<TextContent(<<"Error: ">> \o Message(out.err))>>)
  ELSE Raised(out.err)

\* The frame of a call when control leaves it: a handler call that has
\* ended has its response.
HandlerResult(cl) ==
  IF cl.req.kind = "handler" /\ cl.pc = "done"
    THEN [cl EXCEPT !.response = Respond(cl.outcome)]
    ELSE cl

\* arguments or {}
OrEmpty(arguments) == IF Truthy(arguments) THEN The(arguments) ELSE <<>>

\* A slot takes a new call when it holds none.
Free(c) == calls[c].pc = "idle"

\* The name mkstemp picks: one that no file on disk has and that no call
\* still remembers (names being interchangeable, the lowest such one);
\* None when there is none left.
NameChoices ==
  LET held == UNION { calls[c].temp_file_list : c \in Slots }
      free == TempNames \ (DOMAIN tmpdir \cup leaked \cup held)
  IN  IF free = {} THEN {None}
      ELSE { Some(CHOOSE n \in free : \A m \in free : n <= m) }

Faults == {"none", "mkstemp", "write"}

\* The paths that passed validation remembered as allowed directories.
Apply_Remembering(c, r) ==
  /\ calls' = [calls EXCEPT ![c] = r.call]
  /\ tmpdir' = r.tmpdir
  /\ leaked' = r.leaked
  /\ allowed_directories' =
       IF r.call.req.kind = "validate" /\ r.call.outcome.kind = "return"
         THEN Append(allowed_directories, r.call.outcome.value)
         ELSE allowed_directories
  /\ UNCHANGED <<gemini_path, environ, server>>

\* The step of the call in slot c: its frame and the temporary files
\* change, the configuration does not.  A call made through the handler of
\* the server that ends here ends with the handler's result.
Apply(c, r) ==
  /\ calls' = [calls EXCEPT ![c] = HandlerResult(r.call)]
  /\ tmpdir' = r.tmpdir
  /\ leaked' = r.leaked
  /\ UNCHANGED <<gemini_path, allowed_directories, environ, server>>

\* A direct call of _validate_file_path.
Validate(c, req) ==
  /\ Free(c)
  /\ LET v == _validate_file_path(req.raw)
     IN  Apply(c, Finally(NewCall(req),
                          IF v.ok THEN Returned(v.path) ELSE Raised(v.err),
                          TRUE, tmpdir, leaked))
  /\ UNCHANGED procs

\* A direct call of _run_gemini_command, up to its first suspension.
RunGeminiCommand(c, req) ==
  /\ Free(c)
  /\ \E name \in NameChoices, fault \in Faults, rmok \in BOOLEAN :
       Apply(c, RunEnter(NewCall(req), req.prompt, req.model, req.files,
                         req.stdin_input, name, fault, rmok, tmpdir, leaked))
  /\ UNCHANGED procs

\* call_tool(name, arguments), up to its first suspension.
CallTool(c, req) ==
  /\ Free(c)
  /\ LET d == call_tool(req.name, req.arguments)
     IN  CASE d.kind = "run" ->
                \E name \in NameChoices, fault \in Faults, rmok \in BOOLEAN :
                  Apply(c, RunEnter(NewCall(req), d.prompt, d.model, d.files,
                                    d.stdin_input, name, fault, rmok,
                                    tmpdir, leaked))
           [] d.kind = "return" ->
                Apply(c, Finally(NewCall(req), Returned(d.value), TRUE,
                                 tmpdir, leaked))
           [] d.kind = "raise" ->
                Apply(c, Finally(NewCall(req), Raised(d.err), TRUE,
                                 tmpdir, leaked))
  /\ UNCHANGED procs

\* The read-back of the listing completes or fails.
ReadBackDone(c) ==
  /\ calls[c].pc = "reading"
  /\ \E ok \in BOOLEAN, rmok \in BOOLEAN :
       Apply(c, ReadBack(calls[c], ok, rmok, tmpdir, leaked))
  /\ UNCHANGED procs

\* The pid of a new process: the lowest one free (None: no process can be
\* created).
PidChoices ==
  LET free == Pids \ DOMAIN procs
  IN  IF free = {} THEN {None}
      ELSE { None, Some(CHOOSE p \in free : \A q \in free : p <= q) }

\* create_subprocess_exec completes or fails.
SpawnDone(c) ==
  /\ calls[c].pc = "spawning"
  /\ \E pid \in PidChoices, rmok \in BOOLEAN :
       /\ Apply(c, Spawned(calls[c], pid, rmok, tmpdir, leaked))
       /\ procs' = IF pid = None THEN procs
                   ELSE (The(pid) :> NewProcess(The(calls[c].argv))) @@ procs

\* A child process exits, with one of results.
ProcessExit(p, results) ==
  /\ p \in DOMAIN procs
  /\ procs[p].result = None
  /\ \E res \in results : procs' = [procs EXCEPT ![p].result = Some(res)]
  /\ UNCHANGED <<gemini_path, allowed_directories, calls, tmpdir, leaked,
                 environ, server>>

\* communicate returns the result once the process has exited, or raises
\* (res is None).
CommunicateDone(c) ==
  /\ calls[c].pc = "communicating"
  /\ \E res \in {None, WaitResult(calls[c], procs)}, rmok \in BOOLEAN :
       Apply(c, Communicated(calls[c], res, rmok, tmpdir, leaked))
  /\ UNCHANGED procs

\* The caller abandons the call (cancellation, or the deadline of a
\* wait_for) while it is suspended.  Abandoned inside
\* create_subprocess_exec, the call has no process yet.
Cancel(c) ==
  /\ calls[c].pc \in {"reading", "spawning", "communicating"}
  /\ \E rmok \in BOOLEAN :
       Apply(c, Cancelled(calls[c], rmok, tmpdir, leaked))
  /\ procs' = AbandonProcs(calls[c], procs)

\* The caller takes the outcome of a finished call; its frame is gone,
\* and its child process is followed no further.
Return(c) ==
  /\ calls[c].pc = "done"
  /\ calls' = [calls EXCEPT ![c] = NewCall(NoRequest)]
  /\ procs' = IF calls[c].pid = None THEN procs
              ELSE Without(procs, The(calls[c].pid))
  /\ UNCHANGED <<gemini_path, allowed_directories, tmpdir, leaked, environ,
                 server>>

\* The caller awaits each call before it makes the next one.
Next ==
  \/ \E req \in ValidateRequests : Validate(1, req)
  \/ \E req \in RunRequests : RunGeminiCommand(1, req)
  \/ \E req \in ToolRequests : CallTool(1, req)
  \/ \E c \in Slots : ReadBackDone(c)
  \/ \E c \in Slots : SpawnDone(c)
  \/ \E p \in Pids : ProcessExit(p, ProcResults)
  \/ \E c \in Slots : CommunicateDone(c)
  \/ \E c \in Slots : Cancel(c)
  \/ \E c \in Slots : Return(c)

Spec == Init /\ [][Next]_vars

\* Calls in flight together: file sets that overlap, and a call without
\* files.
ConcurrentRequests ==
  { ToolRequest("gemini_research",
                ("topic" :> pPlain) @@ ("files" :> <<fRelIn>>)),
    ToolRequest("gemini_research",
                ("topic" :> pPlain) @@ ("files" :> <<fSub, fRelIn>>)),
    ToolRequest("gemini_prompt", "prompt" :> pPlain) }

\* Path validations made meanwhile.
ConcurrentValidateRequests ==
  { [kind |-> "validate", raw |-> r] : r \in {fSub, fOutside} }

\* What their processes answer: a success and a failure.
ConcurrentResults ==
  { ProcResult(0, <<" ", "o", "k", NL>>, <<>>),
    ProcResult(1, <<"x">>, <<" ", "b", "o", "o", "m", " ">>) }

\* Every slot takes calls, interleaved at each suspension.
NextConcurrent ==
  \/ \E c \in Slots, req \in ConcurrentValidateRequests : Validate(c, req)
  \/ \E c \in Slots, req \in ConcurrentRequests : CallTool(c, req)
  \/ \E c \in Slots : ReadBackDone(c)
  \/ \E c \in Slots : SpawnDone(c)
  \/ \E p \in Pids : ProcessExit(p, ConcurrentResults)
  \/ \E c \in Slots : CommunicateDone(c)
  \/ \E c \in Slots : Cancel(c)
  \/ \E c \in Slots : Return(c)

SpecConcurrent == Init /\ [][NextConcurrent]_vars

(***************************************************************************)
(* The server: its construction, and calls through its handler             *)
(***************************************************************************)
\* GeminiMCPServer(allowed_directories=arg)
ConstructServer(arg) ==
  /\ server.state = "none"
  /\ LET k == Constructed(arg, environ)
     IN  /\ gemini_path' = k.gemini_path
         /\ allowed_directories' = k.allowed_directories
         /\ server' = k.server
  /\ UNCHANGED <<calls, tmpdir, leaked, procs, environ>>

\* While the server runs, the executable is moved, or taken off PATH.
PathChanges(found) ==
  /\ server.state = "ready"
  /\ found # environ.which
  /\ environ' = [environ EXCEPT !.which = found]
  /\ UNCHANGED <<gemini_path, allowed_directories, calls, tmpdir, leaked,
                 procs, server>>

\* The call_tool handler of the server, up to its first suspension:
\* self.tools.call_tool(name, arguments or {}) inside the try.
ServerCallTool(c, req) ==
  /\ server.state = "ready"
  /\ Free(c)
  /\ LET d == call_tool(req.name, OrEmpty(req.arguments))
     IN  CASE d.kind = "run" ->
                \E name \in NameChoices, fault \in Faults, rmok \in BOOLEAN :
                  Apply(c, RunEnter(NewCall(req), d.prompt, d.model, d.files,
                                    d.stdin_input, name, fault, rmok,
                                    tmpdir, leaked))
           [] d.kind = "return" ->
                Apply(c, Finally(NewCall(req), Returned(d.value), TRUE,
                                 tmpdir, leaked))
           [] d.kind = "raise" ->
                Apply(c, Finally(NewCall(req), Raised(d.err), TRUE,
                                 tmpdir, leaked))
  /\ UNCHANGED procs

\* The environments a server is started in.
ServerEnvirons ==
  { [which |-> w, dirs |-> d] :
      w \in { None, Some(WhichGemini) },
      d \in { None, Some(<<>>), Some(<<"/", "a">>), Some(<<":">>),
              Some(<<" ", "/", "c", " ", ":", " ", ":", "d", ":", "/", "a",
                     "/", "d", "/", ".", ".", NL>>) } }

\* The allowed_directories arguments it is constructed with.
ServerArguments ==
  { None, Some(<<>>), Some(<< <<"/", "c">>, <<"d", "/", ".", ".">> >>),
    Some(<< <<"/", "a">>, fNul >>) }

\* Where the executable is found later.
LaterGemini == <<"/opt/gemini">>

HandlerRequest(name, arguments) ==
  [kind |-> "handler", name |-> name, arguments |-> arguments]

\* What the protocol layer asks of the handler; None: no arguments.
HandlerRequests ==
  { HandlerRequest(n, None) :
      n \in { "gemini_prompt", "gemini_research", "gemini_analyze_code",
              "gemini_summarize", "unknown_tool" } }
  \cup { HandlerRequest("gemini_prompt", Some(a)) :
           a \in { <<>>, "prompt" :> pPlain, "context" :> pPlain } }
  \cup { HandlerRequest("gemini_research", Some(a)) :
           a \in { "files" :> <<fOutside>>,
                   ("topic" :> pPlain) @@ ("files" :> <<fInside>>),
                   ("topic" :> pPlain) @@ ("files" :> <<fOutside>>),
                   ("topic" :> pPlain) @@ ("files" :> <<fMissing>>) } }
  \cup { HandlerRequest("gemini_analyze_code", Some(a)) :
           a \in { "files" :> <<fOutside>>,
                   "analysis_type" :> <<"review">> } }
  \cup { HandlerRequest("gemini_summarize", Some(a)) :
           a \in { "content" :> pPlain } }

\* What the process answers: a success, an authentication failure and
\* another failure.
ServerResults ==
  { ProcResult(0, <<" ", "o", "k", NL>>, <<>>),
    ProcResult(1, <<>>, <<"N", "o", "t", " ", "A", "u", "t", "h", "e", "n", "t", "i", "c", "a", "t", "e", "d", NL>>),
    ProcResult(1, <<"x">>, <<" ", "b", "o", "o", "m", " ">>) }

InitServer ==
  /\ environ \in ServerEnvirons
  /\ server = NoServer
  /\ gemini_path = <<>>
  /\ allowed_directories = <<>>
  /\ calls = [c \in Slots |-> NewCall(NoRequest)]
  /\ tmpdir = <<>>
  /\ leaked = {}
  /\ procs = <<>>

\* The server is constructed, then serves one call at a time.
NextServer ==
  \/ \E arg \in ServerArguments : ConstructServer(arg)
  \/ \E found \in { None, Some(LaterGemini) } : PathChanges(found)
  \/ \E req \in HandlerRequests : ServerCallTool(1, req)
  \/ \E c \in Slots : ReadBackDone(c)
  \/ \E c \in Slots : SpawnDone(c)
  \/ \E p \in Pids : ProcessExit(p, ServerResults)
  \/ \E c \in Slots : CommunicateDone(c)
  \/ \E c \in Slots : Cancel(c)
  \/ \E c \in Slots : Return(c)

SpecServer == InitServer /\ [][NextServer]_vars

(***************************************************************************)
(* Properties                                                              *)
(***************************************************************************)
\* root is p or an ancestor of p, name by name.
IsAncestorOrSelf(root, p) ==
  /\ Len(root) <= Len(p)
  /\ \A k \in 1..Len(root) : p[k] = root[k]

\* p lies in an allowed root.
Contained(p) ==
  \E i \in 1..Len(allowed_directories) :
    IsAncestorOrSelf(allowed_directories[i], p)

ValidateDone(c) == calls[c].req.kind = "validate" /\ calls[c].pc = "done"

\* C1: _validate_file_path returns the resolved path if and only if the
\* resolved path is an allowed root or a descendant of one, the comparison
\* being made name by name: a path in a sibling directory whose name only
\* starts with the name of an allowed root is rejected.
C1_ValidateIffContained ==
  \A c \in Slots :
    ValidateDone(c) /\ Resolve(calls[c].req.raw).ok =>
      LET p == Resolve(calls[c].req.raw).path
          out == calls[c].outcome
      IN  /\ out.kind = "return" <=> Contained(p)
          /\ out.kind = "return" => out.value = p
          /\ out.kind # "return" =>
               out.kind = "raise"
                 /\ out.err.kind = "outside allowed directories"

\* /ab/x is rejected while /a is an allowed root.
C1_Witness ==
  \E c \in Slots :
    /\ ValidateDone(c)
    /\ calls[c].req.raw = fSibling
    /\ calls[c].outcome.kind = "raise"
    /\ \E i \in 1..Len(allowed_directories) : allowed_directories[i] = <<nA>>

\* C7: when the resolved path lies outside every allowed root,
\* _validate_file_path raises the 'outside allowed directories' error, whose
\* message carries the path as given and every allowed root, in order.
C7_OutsideIsRejectedWithDiagnostics ==
  \A c \in Slots :
    ( /\ ValidateDone(c)
      /\ Resolve(calls[c].req.raw).ok
      /\ ~Contained(Resolve(calls[c].req.raw).path) ) =>
      LET out == calls[c].outcome
      IN  /\ out.kind = "raise"
          /\ out.err.type = "ValueError"
          /\ out.err.kind = "outside allowed directories"
          /\ out.err.path = calls[c].req.raw
          /\ Len(out.err.allowed) = Len(allowed_directories)
          /\ \A i \in 1..Len(allowed_directories) :
               out.err.allowed[i] = Str(allowed_directories[i])

\* A ../ traversal out of a root is rejected, with two roots configured.
C7_Witness ==
  \E c \in Slots :
    /\ ValidateDone(c)
    /\ calls[c].req.raw = fTraversal
    /\ calls[c].outcome.kind = "raise"
    /\ calls[c].outcome.err.kind = "outside allowed directories"
    /\ Len(allowed_directories) = 2

\* The call in slot c entered _run_gemini_command.
Ran(c) == calls[c].run # None

\* ... with a files argument that is a non-empty list.
NonEmptyFiles(c) ==
  /\ Ran(c)
  /\ The(calls[c].run).files # None
  /\ Len(The(The(calls[c].run).files)) > 0

FilesOf(c) == The(The(calls[c].run).files)

Has(c, event) == \E i \in 1..Len(calls[c].log) : calls[c].log[i] = event

Count(c, event) ==
  Cardinality({ i \in 1..Len(calls[c].log) : calls[c].log[i] = event })

\* The temporary file of the call in slot c is on disk.
TempOnDisk(c) ==
  /\ calls[c].temp_file_list # None
  /\ The(calls[c].temp_file_list) \in DOMAIN tmpdir \cup leaked

\* The lines of a newline separated listing.
Lines(content) ==
  LET fields == Split(content, NL)
  IN  IF fields[Len(fields)] = <<>>
        THEN SubSeq(fields, 1, Len(fields) - 1)
        ELSE fields

\* line is the text of a resolved path that lies in an allowed root.
IsAllowedLine(line) ==
  LET r == Resolve(line)
  IN  /\ PurePath(line).abs
      /\ r.ok
      /\ Str(r.path) = line
      /\ Contained(r.path)

AllLinesAllowed(content) ==
  \A i \in 1..Len(Lines(content)) : IsAllowedLine(Lines(content)[i])

\* C2: whatever tool is called with whatever arguments, every path in the
\* temporary listing, and every path sent on the standard input of the
\* process, is a resolved path inside an allowed root.
C2_ListedPathsAreAllowed ==
  \A c \in Slots :
    calls[c].req.kind = "tool" =>
      /\ ( calls[c].temp_file_list # None
             /\ The(calls[c].temp_file_list) \in DOMAIN tmpdir ) =>
           AllLinesAllowed(tmpdir[The(calls[c].temp_file_list)])
      /\ ( calls[c].communicated /\ calls[c].input # None ) =>
           AllLinesAllowed(The(calls[c].input))

\* C3 as stated: once a call with files has ended, however it ended, its
\* temporary listing is no longer on disk.
C3_TempFileGoneAfterCall ==
  \A c \in Slots :
    ( calls[c].pc = "done" /\ NonEmptyFiles(c) ) => ~TempOnDisk(c)

\* C3 amended: once a call with files has ended, however it ended, its
\* temporary listing is no longer on disk, unless the removal itself
\* failed: then, and only then, the file is left behind.
C3_TempFileGoneUnlessRemovalFailed ==
  \A c \in Slots :
    ( calls[c].pc = "done" /\ NonEmptyFiles(c) ) =>
      /\ TempOnDisk(c) <=> Has(c, "remove_failed")
      /\ calls[c].temp_file_list # None =>
           The(calls[c].temp_file_list) \notin DOMAIN tmpdir

\* A call that raised after its listing was created, and the file is gone.
C3_Witness ==
  \E c \in Slots :
    /\ calls[c].pc = "done"
    /\ NonEmptyFiles(c)
    /\ Has(c, "created")
    /\ calls[c].outcome.kind = "raise"
    /\ ~TempOnDisk(c)

\* C4 as stated: a call creates at most one temporary file, only for a
\* non-empty files argument, and removes it exactly once; a call without
\* files creates and removes none.
C4_CreatedOnceRemovedOnce ==
  \A c \in Slots :
    /\ Count(c, "created") <= 1
    /\ Has(c, "created") => NonEmptyFiles(c)
    /\ ( calls[c].pc = "done" /\ Has(c, "created") ) =>
         Count(c, "removed") = 1
    /\ ~Has(c, "created") => ~Has(c, "removed")

\* C4 amended: a call creates at most one temporary file, only for a
\* non-empty files argument, and attempts its removal exactly once, when
\* the call ends; the attempt removes the file unless os.remove fails.  A
\* call without files creates no file and attempts no removal.
C4_CreatedOnceRemovalAttemptedOnce ==
  \A c \in Slots :
    /\ Count(c, "created") <= 1
    /\ Has(c, "created") <=> calls[c].temp_file_list # None
    /\ Has(c, "created") => NonEmptyFiles(c)
    /\ Count(c, "removed") + Count(c, "remove_failed") =
         IF calls[c].pc = "done" /\ Has(c, "created") THEN 1 ELSE 0
    /\ Has(c, "removed") => ~TempOnDisk(c)
    /\ ( Has(c, "created") /\ calls[c].pc # "done" ) => TempOnDisk(c)

\* A call with files that returned: one file created, one removal.
C4_Witness ==
  \E c \in Slots :
    /\ calls[c].pc = "done"
    /\ NonEmptyFiles(c)
    /\ calls[c].outcome.kind = "return"
    /\ Count(c, "created") = 1
    /\ Count(c, "removed") = 1

EventOrder ==
  <<"validated", "created", "written", "closed", "read", "spawned",
    "awaited">>

Rank(event) ==
  IF \E k \in 1..Len(EventOrder) : EventOrder[k] = event
    THEN CHOOSE k \in 1..Len(EventOrder) : EventOrder[k] = event
    ELSE Len(EventOrder) + 1

\* C5: in a call with files the events happen in the order validated,
\* created, written, closed, read, spawned, awaited, removed, none twice
\* and none without the ones it builds on; the write descriptor is closed
\* before the read-back starts, also when the read-back fails; the file is
\* not removed before the process has completed or the call has failed.
C5_EventOrder ==
  \A c \in Slots :
    LET log == calls[c].log
        removal == Has(c, "removed") \/ Has(c, "remove_failed")
    IN  /\ \A i, j \in 1..Len(log) : i < j => Rank(log[i]) < Rank(log[j])
        /\ Has(c, "created") => Has(c, "validated")
        /\ Has(c, "written") => Has(c, "created")
        /\ Has(c, "closed") => Has(c, "created")
        /\ Has(c, "read") => Has(c, "written") /\ Has(c, "closed")
        /\ ( NonEmptyFiles(c) /\ Has(c, "spawned") ) => Has(c, "read")
        /\ Has(c, "awaited") => Has(c, "spawned")
        /\ removal => Has(c, "created")
        /\ calls[c].pc = "reading" => Has(c, "closed") /\ ~Has(c, "read")
        /\ ( calls[c].pc = "done" /\ calls[c].outcome.err = OSError("read") )
             => Has(c, "closed") /\ ~Has(c, "read")
        /\ removal => Has(c, "awaited") \/ calls[c].outcome.kind = "raise"
        /\ ( NonEmptyFiles(c) /\ calls[c].outcome.kind = "return" ) =>
             /\ Len(log) = Len(EventOrder) + 1
             /\ SubSeq(log, 1, Len(EventOrder)) = EventOrder

\* A call with files that returned after all eight events.
C5_Witness ==
  \E c \in Slots :
    /\ NonEmptyFiles(c)
    /\ calls[c].outcome.kind = "return"
    /\ calls[c].log = Append(EventOrder, "removed")

\* The entry does not resolve into an allowed root, or is not on disk.
BadEntry(raw) ==
  LET r == Resolve(raw)
  IN  ~(r.ok /\ Contained(r.path) /\ r.path \in Existing)

PathErrors ==
  {"Invalid file path", "outside allowed directories", "File does not exist"}

\* C6: when an entry of files fails validation or does not exist, the call
\* raises with no temporary file created and no process spawned, also when
\* other entries of the list are valid.
C6_NoPartialInvocation ==
  \A c \in Slots :
    ( NonEmptyFiles(c)
        /\ \E i \in 1..Len(FilesOf(c)) : BadEntry(FilesOf(c)[i]) ) =>
      /\ calls[c].pc = "done"
      /\ calls[c].outcome.kind = "raise"
      /\ calls[c].outcome.err.kind \in PathErrors
      /\ calls[c].temp_file_list = None
      /\ calls[c].argv = None
      /\ ~calls[c].communicated
      /\ calls[c].log = <<>>

\* A list whose first entry is valid and whose second is outside.
C6_Witness ==
  \E c \in Slots :
    /\ NonEmptyFiles(c)
    /\ FilesOf(c) = <<fRelIn, fOutside>>
    /\ calls[c].pc = "done"
    /\ calls[c].outcome.kind = "raise"
    /\ calls[c].temp_file_list = None

\* The first entry of files that stops the validation loop.
FirstBad(files) ==
  CHOOSE i \in 1..Len(files) :
    BadEntry(files[i]) /\ \A j \in 1..(i - 1) : ~BadEntry(files[j])

\* C8: an entry that passes validation but is not on disk makes the call
\* raise 'File does not exist' naming the entry as given; an entry that is
\* outside the allow-list is reported as such (or as invalid), never as
\* missing, also when it is missing too.
C8_MissingFileError ==
  \A c \in Slots :
    ( NonEmptyFiles(c) /\ calls[c].pc = "done"
        /\ \E i \in 1..Len(FilesOf(c)) : BadEntry(FilesOf(c)[i]) ) =>
      LET raw == FilesOf(c)[FirstBad(FilesOf(c))]
          r == Resolve(raw)
          err == calls[c].outcome.err
      IN  IF r.ok /\ Contained(r.path)
            THEN /\ err.kind = "File does not exist"
                 /\ err.type = "ValueError"
                 /\ err.path = raw
            ELSE /\ err.kind \in PathErrors \ {"File does not exist"}
                 /\ err.path = raw

\* A call whose only entry is inside a root and missing.
C8_Witness ==
  \E c \in Slots :
    /\ NonEmptyFiles(c)
    /\ FilesOf(c) = <<fMissing>>
    /\ calls[c].pc = "done"
    /\ calls[c].outcome.err.kind = "File does not exist"

\* C9: the argument vector handed to the spawner holds the prompt, as it
\* was given, as the one element after "-p" and the model as the one
\* element after "-m"; it has 5 elements, or 6 with "-a" appended.
C9_ArgumentVector ==
  \A c \in Slots :
    calls[c].argv # None =>
      LET argv == The(calls[c].argv)
          run == The(calls[c].run)
      IN  /\ Len(argv) \in {5, 6}
          /\ argv[1] = gemini_path
          /\ argv[2] = <<"-", "m">>
          /\ argv[3] = run.model
          /\ argv[4] = <<"-", "p">>
          /\ argv[5] = run.prompt
          /\ Len(argv) = 6 => argv[6] = <<"-", "a">>
          /\ calls[c].req.kind = "run" =>
               argv[3] = calls[c].req.model /\ argv[5] = calls[c].req.prompt

\* A prompt of shell metacharacters, spaces and a newline, with files.
C9_Witness ==
  \E c \in Slots :
    /\ calls[c].argv # None
    /\ The(calls[c].run).prompt = pMeta
    /\ Len(The(calls[c].argv)) = 6
    /\ The(calls[c].argv)[5] = pMeta

\* C10 as stated: without files the invocation is [binary, "-m", model,
\* "-p", prompt] and no standard-input payload is written.
C10_NoFilesNoStdin ==
  \A c \in Slots :
    ( Ran(c) /\ ~NonEmptyFiles(c) /\ calls[c].argv # None ) =>
      /\ The(calls[c].argv) =
           <<gemini_path, <<"-", "m">>, The(calls[c].run).model,
             <<"-", "p">>, The(calls[c].run).prompt>>
      /\ calls[c].input = None

\* C10 amended: without files the invocation is [binary, "-m", model,
\* "-p", prompt]; no standard-input payload is written, unless a non-empty
\* stdin_input was passed, which is then the payload.
C10_NoFilesStdinOnlyIfGiven ==
  \A c \in Slots :
    ( Ran(c) /\ ~NonEmptyFiles(c) ) =>
      /\ calls[c].pc # "reading"
      /\ calls[c].temp_file_list = None
      /\ calls[c].argv # None
      /\ The(calls[c].argv) =
           <<gemini_path, <<"-", "m">>, The(calls[c].run).model,
             <<"-", "p">>, The(calls[c].run).prompt>>
      /\ LET given == The(calls[c].run).stdin_input
         IN  calls[c].input =
               IF calls[c].communicated /\ given # None /\ The(given) # <<>>
                 THEN given ELSE None

\* A call without files whose process was given no input.
C10_Witness ==
  \E c \in Slots :
    /\ Ran(c)
    /\ The(calls[c].run).files = None
    /\ The(calls[c].run).stdin_input = None
    /\ calls[c].communicated
    /\ calls[c].input = None

\* Every entry of the files of the call in slot c is valid and exists.
AllEntriesGood(c) ==
  /\ NonEmptyFiles(c)
  /\ \A i \in 1..Len(FilesOf(c)) : ~BadEntry(FilesOf(c)[i])

\* The resolved paths of the files of the call in slot c, in the order
\* given, each followed by a newline.
ResolvedLines(c) ==
  Concat([i \in 1..Len(FilesOf(c)) |->
            Str(Resolve(FilesOf(c)[i]).path) \o <<NL>>])

ArgvWithFiles(c) ==
  <<gemini_path, <<"-", "m">>, The(calls[c].run).model,
    <<"-", "p">>, The(calls[c].run).prompt, <<"-", "a">>>>

HasAllFilesFlag(c) ==
  Len(The(calls[c].argv)) = 6 /\ The(calls[c].argv)[6] = <<"-", "a">>

Awaited(c) == calls[c].pc = "done" /\ calls[c].proc # None

\* text without the whitespace at its two ends.
Trimmed(text) ==
  LET inner == { k \in 1..Len(text) : text[k] \notin Whitespace }
  IN  IF inner = {} THEN <<>>
      ELSE SubSeq(text,
                  CHOOSE k \in inner : \A m \in inner : k <= m,
                  CHOOSE k \in inner : \A m \in inner : m <= k)

\* C12: when the process exits with code 0 the call returns its standard
\* output without the whitespace at its two ends, whatever the standard
\* error holds.
C12_ZeroExitReturnsStdout ==
  \A c \in Slots :
    ( Awaited(c) /\ The(calls[c].proc).returncode = 0 ) =>
      /\ calls[c].outcome.kind = "return"
      /\ calls[c].outcome.value = Trimmed(The(calls[c].proc).stdout)

\* The text holds one of the four authentication phrases, whatever the
\* case of its letters.
HasAuthMarker(text) ==
  \E phrase \in AuthPhrases :
    \E k \in 0..(Len(text) - Len(phrase)) :
      \A m \in 1..Len(phrase) : LowerChar(text[k + m]) = phrase[m]

\* C13: when the process exits with a nonzero code the call raises, and
\* what it raises is the authentication failure if and only if the
\* standard error holds an authentication phrase, and otherwise the
\* generic command failure, whose message holds the standard error text.
C13_NonzeroExitRaisesOneOfTwo ==
  \A c \in Slots :
    ( Awaited(c) /\ The(calls[c].proc).returncode # 0 ) =>
      LET stderr == The(calls[c].proc).stderr
          err == calls[c].outcome.err
      IN  /\ calls[c].outcome.kind = "raise"
          /\ err.type = "RuntimeError"
          /\ err.kind = IF HasAuthMarker(stderr)
                          THEN "Gemini CLI authentication error"
                          ELSE "Gemini CLI error"
          /\ err.text = Trimmed(stderr)

\* The call in slot c is a tool dispatch that reached _run_gemini_command.
Dispatched(c) == calls[c].req.kind = "tool" /\ Ran(c)

\* C14: a tool dispatch spawns the process at most once and waits for it
\* at most once; a spawn failure, a nonzero exit and an exception in
\* communicate end the call with that failure and no other spawn; a
\* dispatch that returns a value has spawned a process of its own, which
\* no other call in flight has, and returns what that process answered, also
\* when the same arguments were dispatched before.
C14_SpawnedAtMostOnce ==
  \A c \in Slots :
    /\ Count(c, "spawned") <= 1
    /\ Count(c, "awaited") <= 1
    /\ Has(c, "spawned") <=> calls[c].pid # None
    /\ calls[c].pid # None =>
         /\ The(calls[c].pid) \in DOMAIN procs
         /\ \A d \in Slots \ {c} : calls[d].pid # calls[c].pid
    /\ Has(c, "awaited") => calls[c].pc = "done" /\ calls[c].proc # None
    /\ ( calls[c].proc # None /\ The(calls[c].proc).returncode # 0 ) =>
         calls[c].outcome.kind = "raise"
    /\ ( calls[c].pc = "done"
           /\ calls[c].outcome.err
                \in {OSError("spawn"), CommunicateException} ) =>
         Count(c, "spawned") = IF calls[c].outcome.err = OSError("spawn")
                                 THEN 0 ELSE 1
    /\ ( Dispatched(c) /\ calls[c].outcome.kind = "return" ) =>
         /\ Count(c, "spawned") = 1
         /\ calls[c].proc = procs[The(calls[c].pid)].result

\* The same dispatch made twice: one failed on a nonzero exit, the other
\* returned, each after one spawn of its own process.
C14_Witness ==
  \E c, d \in Slots :
    /\ c # d
    /\ Dispatched(c) /\ Dispatched(d)
    /\ calls[c].req = calls[d].req
    /\ calls[c].pc = "done" /\ calls[d].pc = "done"
    /\ calls[c].outcome.kind = "raise"
    /\ calls[c].outcome.err.kind = "Gemini CLI error"
    /\ calls[d].outcome.kind = "return"
    /\ Count(c, "spawned") = 1 /\ Count(d, "spawned") = 1
    /\ calls[c].pid # calls[d].pid

\* The call in slot c is call_tool(name, ...).
IsTool(c, name) == calls[c].req.kind = "tool" /\ calls[c].req.name = name

\* The call in slot c never entered _run_gemini_command: no path was
\* validated, no temporary file created, no process asked for.
NothingDone(c) ==
  /\ ~Ran(c)
  /\ calls[c].validated_paths = <<>>
  /\ calls[c].temp_file_list = None
  /\ calls[c].argv = None
  /\ calls[c].pid = None
  /\ ~calls[c].communicated
  /\ calls[c].log = <<>>

\* key is missing from the arguments of the call in slot c, or is empty.
AbsentOrEmpty(c, key) ==
  key \in DOMAIN calls[c].req.arguments =>
    calls[c].req.arguments[key] = <<>>

\* C15: gemini_summarize with content absent or empty and files absent or
\* empty returns the guidance string as its value; nothing is raised, no
\* process is spawned and no temporary file is created.
C15_SummarizeGuidance ==
  \A c \in Slots :
    ( /\ IsTool(c, "gemini_summarize")
      /\ AbsentOrEmpty(c, "content")
      /\ AbsentOrEmpty(c, "files") ) =>
      /\ calls[c].pc = "done"
      /\ calls[c].outcome.kind = "return"
      /\ calls[c].outcome.value
           = <<"Error: Either content or files must be provided for summarization.">>
      /\ NothingDone(c)

\* gemini_summarize with an empty content and no files key.
C15_Witness ==
  \E c \in Slots :
    /\ IsTool(c, "gemini_summarize")
    /\ calls[c].req.arguments = ("content" :> <<>>)
    /\ calls[c].outcome.kind = "return"

ToolNames ==
  {"gemini_prompt", "gemini_research", "gemini_analyze_code",
   "gemini_summarize"}

\* C16: call_tool with a name that is none of the four tools raises the
\* unknown-tool error, which names the tool asked for, whatever the
\* arguments; no path is validated, no temporary file is created and no
\* process is spawned.
C16_UnknownTool ==
  \A c \in Slots :
    ( calls[c].req.kind = "tool" /\ calls[c].req.name \notin ToolNames ) =>
      /\ calls[c].pc = "done"
      /\ calls[c].outcome.kind = "raise"
      /\ calls[c].outcome.err.type = "ValueError"
      /\ calls[c].outcome.err.kind = "Unknown tool"
      /\ calls[c].outcome.err.text = <<calls[c].req.name>>
      /\ NothingDone(c)

\* An unknown tool called with a files list that holds an outside path.
C16_Witness ==
  \E c \in Slots :
    /\ calls[c].req.kind = "tool"
    /\ calls[c].req.name = "unknown_tool"
    /\ calls[c].req.arguments = ("files" :> <<fOutside>>)
    /\ calls[c].outcome.kind = "raise"

\* C17: every gemini_analyze_code dispatch that asks for a process passes
\* "-a" and hands a non-empty listing to it, and a dispatch with an empty
\* files list does not run as an invocation without files.
C17_AnalyzeNeedsFiles ==
  \A c \in Slots :
    IsTool(c, "gemini_analyze_code") =>
      /\ calls[c].argv # None => HasAllFilesFlag(c)
      /\ calls[c].communicated => Truthy(calls[c].input)
      /\ ( "files" \in DOMAIN calls[c].req.arguments
             /\ calls[c].req.arguments["files"] = <<>> ) =>
           calls[c].argv = None

\* The call in slot c is suspended, its temporary file created.
LiveWithFile(c) ==
  /\ calls[c].pc \in {"reading", "spawning", "communicating"}
  /\ calls[c].temp_file_list # None

\* C18: with calls interleaved at every suspension, also calls whose file
\* sets overlap: the temporary files of two live calls have different
\* names; the file of a live call is on disk and holds the listing of that
\* call (no other call removed or rewrote it); the standard-input payload
\* of a call is its own listing; the outcome of a call is made from the
\* result of the process that call spawned.
C18_CallsDoNotInterfere ==
  \A c \in Slots :
    /\ LiveWithFile(c) =>
         /\ \A d \in Slots \ {c} :
              LiveWithFile(d) => calls[d].temp_file_list # calls[c].temp_file_list
         /\ The(calls[c].temp_file_list) \in DOMAIN tmpdir
         /\ tmpdir[The(calls[c].temp_file_list)] = ResolvedLines(c)
    /\ ( calls[c].communicated /\ NonEmptyFiles(c) ) =>
         calls[c].input = Some(ResolvedLines(c))
    /\ ( calls[c].communicated /\ ~NonEmptyFiles(c) ) => calls[c].input = None
    /\ Awaited(c) =>
         LET own == procs[The(calls[c].pid)]
         IN  /\ own.argv = The(calls[c].argv)
             /\ own.result # None
             /\ calls[c].proc = own.result
             /\ calls[c].outcome.kind = "return" =>
                  calls[c].outcome.value = Trimmed(The(own.result).stdout)
             /\ calls[c].outcome.kind = "raise" =>
                  calls[c].outcome.err.text = Trimmed(The(own.result).stderr)

\* Two calls that share a file: one has returned what its process
\* answered and removed its listing, while the other, whose process has
\* failed, still waits with its own listing on disk.
C18_Witness ==
  \E c, d \in Slots :
    /\ c # d
    /\ NonEmptyFiles(c) /\ NonEmptyFiles(d)
    /\ FilesOf(c) = <<fRelIn>> /\ FilesOf(d) = <<fSub, fRelIn>>
    /\ Awaited(c) /\ calls[c].outcome.kind = "return"
    /\ Has(c, "removed")
    /\ calls[d].pc = "communicating"
    /\ procs[The(calls[d].pid)].result # None
    /\ procs[The(calls[d].pid)].result # calls[c].proc
    /\ The(calls[d].temp_file_list) \in DOMAIN tmpdir

\* The caller abandoned the call with files in slot c while it was
\* suspended, and control is back with the caller.
Abandoned(c) ==
  /\ calls[c].pc = "done"
  /\ calls[c].outcome = Raised(CancelledError)
  /\ NonEmptyFiles(c)

\* The child of the call in slot c, if it has one, runs or has exited by
\* itself: it was not killed.
ChildNotKilled(c) ==
  calls[c].pid # None =>
    /\ The(calls[c].pid) \in DOMAIN procs
    /\ LET result == procs[The(calls[c].pid)].result
       IN  result # None => The(result).returncode >= 0

\* C19 as stated: when the caller abandons a call with files that is
\* suspended, the temporary file is removed before control returns to the
\* caller, and the call does not kill the child process.
C19_AbandonedFileRemoved ==
  \A c \in Slots :
    Abandoned(c) => ~TempOnDisk(c) /\ ChildNotKilled(c)

\* C19 amended: when the caller abandons a call with files that is
\* suspended, the removal of the temporary file is attempted, once,
\* before control returns to the caller, and the file is gone unless that
\* removal failed; the call does not kill the child process.
C19_AbandonedRemovalAttempted ==
  \A c \in Slots :
    Abandoned(c) =>
      /\ Has(c, "created")
      /\ Count(c, "removed") + Count(c, "remove_failed") = 1
      /\ TempOnDisk(c) <=> Has(c, "remove_failed")
      /\ ChildNotKilled(c)

\* A call abandoned in the process wait: its listing is gone and its
\* child has run to its end.
C19_Witness ==
  \E c \in Slots :
    /\ Abandoned(c)
    /\ Has(c, "spawned")
    /\ Has(c, "removed")
    /\ ~TempOnDisk(c)
    /\ procs[The(calls[c].pid)].result # None
    /\ The(procs[The(calls[c].pid)].result).returncode = 0

\* The step is a call of _validate_file_path in slot c.
ValidateStep(c) ==
  calls[c].pc = "idle" /\ calls'[c].req.kind = "validate"

\* C20: no step of any call, whether it succeeds or fails, alone or
\* interleaved with others, changes allowed_directories or gemini_path;
\* and a call of _validate_file_path changes nothing but its own frame:
\* no temporary file, no process and no other call is touched, and the
\* call itself has created none.
C20_ConfigurationFixed ==
  [][ /\ allowed_directories' = allowed_directories
      /\ gemini_path' = gemini_path
      /\ \A c \in Slots :
           ValidateStep(c) =>
             /\ tmpdir' = tmpdir
             /\ leaked' = leaked
             /\ procs' = procs
             /\ \A d \in Slots \ {c} : calls'[d] = calls[d]
             /\ calls'[c].pc = "done"
             /\ calls'[c].temp_file_list = None
             /\ calls'[c].pid = None
             /\ calls'[c].log = <<>> ]_vars

\* A path validated and accepted while another call waits for its process
\* with its listing on disk.
C20_Witness ==
  \E c, d \in Slots :
    /\ ValidateDone(c)
    /\ calls[c].outcome.kind = "return"
    /\ calls[d].pc = "communicating"
    /\ TempOnDisk(d)
    /\ The(calls[d].pid) \in DOMAIN procs

\* C25: when resolving the raw path throws (a NUL character, a loop of
\* symbolic links), _validate_file_path raises the 'Invalid file path'
\* ValueError naming the path as given: not the 'outside allowed
\* directories' error, no allowed directory in it, and not the exception
\* of the resolution itself; a files entry that does not resolve ends
\* _run_gemini_command the same way.
C25_ResolveFailureIsInvalidPath ==
  \A c \in Slots :
    /\ ( ValidateDone(c) /\ ~Resolve(calls[c].req.raw).ok ) =>
         /\ calls[c].outcome.kind = "raise"
         /\ calls[c].outcome.err.type = "ValueError"
         /\ calls[c].outcome.err.kind = "Invalid file path"
         /\ calls[c].outcome.err.path = calls[c].req.raw
         /\ calls[c].outcome.err.allowed = <<>>
    /\ ( NonEmptyFiles(c) /\ calls[c].pc = "done"
           /\ ~Resolve(FilesOf(c)[1]).ok ) =>
         /\ calls[c].outcome.kind = "raise"
         /\ calls[c].outcome.err.kind = "Invalid file path"
         /\ calls[c].outcome.err.path = FilesOf(c)[1]
         /\ calls[c].outcome.err.allowed = <<>>

\* A path through a loop of symbolic links, under an allowed root, is
\* reported as invalid.
C25_Witness ==
  \E c \in Slots :
    /\ ValidateDone(c)
    /\ calls[c].req.raw = fLoop
    /\ ~Resolve(fLoop).ok
    /\ calls[c].outcome.kind = "raise"
    /\ calls[c].outcome.err.kind = "Invalid file path"
    /\ \E i \in 1..Len(allowed_directories) : allowed_directories[i] = <<nA>>

\* The entry resolves to a path outside every allowed root.
OutsideEntry(raw) ==
  LET r == Resolve(raw)
  IN  r.ok /\ ~Contained(r.path)

\* C26: whenever an entry of files lies outside the allow-list, whatever
\* its position, _run_gemini_command raises an error of the path
\* validation (the containment error, or the invalid-path error of an
\* earlier entry), never 'File does not exist': every entry is validated
\* before any is checked to exist.
C26_ValidationPrecedesExistence ==
  \A c \in Slots :
    ( NonEmptyFiles(c) /\ calls[c].pc = "done"
        /\ \E i \in 1..Len(FilesOf(c)) : OutsideEntry(FilesOf(c)[i]) ) =>
      /\ calls[c].outcome.kind = "raise"
      /\ calls[c].outcome.err.kind \in
           {"outside allowed directories", "Invalid file path"}

\* The arguments of the tool call in slot c.
Arguments(c) == calls[c].req.arguments

\* The value of key in them, default when it is missing.
Argument(c, key, default) ==
  IF key \in DOMAIN Arguments(c) THEN Arguments(c)[key] ELSE default

\* The prompt and the model are elements 4 and 2 of the argument vector
\* (counted from 0) of the process the call asked for.
SendsPromptAndModel(c) ==
  calls[c].argv # None =>
    /\ The(calls[c].argv)[5] = The(calls[c].run).prompt
    /\ The(calls[c].argv)[3] = The(calls[c].run).model

\* C27: for each analysis_type among review, explain, optimize, security
\* and test, gemini_analyze_code sends the fixed base prompt of that type
\* (for security, one that contains 'security vulnerabilities'), followed,
\* when specific_question is not empty, by a blank line, 'Specific
\* question: ' and the question, and by nothing when it is absent or
\* empty; the model is the one given, or the default model.
C27_AnalysisPrompt ==
  \A c \in Slots :
    ( /\ IsTool(c, "gemini_analyze_code")
      /\ Ran(c)
      /\ Arguments(c)["analysis_type"] \in AnalysisTypes ) =>
      LET type == Arguments(c)["analysis_type"]
          question == Argument(c, "specific_question", <<>>)
          base ==
            CASE type = <<"review">> ->
                   <<"Please review this code and identify potential issues, bugs, or areas for improvement.">>
              [] type = <<"explain">> ->
                   <<"Please explain what this code does in detail, including its purpose and how it works.">>
              [] type = <<"optimize">> ->
                   <<"Please suggest optimizations for this code to improve performance, readability, or maintainability.">>
              [] type = <<"security">> ->
                   <<"Please analyze this code for ", "security vulnerabilities",
                     " and suggest fixes.">>
              [] type = <<"test">> ->
                   <<"Please suggest test cases and testing strategies for this code.">>
          run == The(calls[c].run)
      IN  /\ run.prompt =
               IF question # <<>>
                 THEN base \o <<NL, NL, "Specific question: ">> \o question
                 ELSE base
          /\ type = <<"security">> =>
               Contains(run.prompt, <<"security vulnerabilities">>)
          /\ run.model = Argument(c, "model", DEFAULT_GEMINI_MODEL)
          /\ SendsPromptAndModel(c)

\* A security analysis without a question and a review with a question
\* and a model have both reached their process.
C27_Witness ==
  \E c \in Slots :
    /\ IsTool(c, "gemini_analyze_code")
    /\ Arguments(c) =
         ("files" :> <<fRelIn>>) @@ ("analysis_type" :> <<"review">>)
           @@ ("specific_question" :> pMeta) @@ ("model" :> mOther)
    /\ calls[c].communicated
    /\ The(calls[c].argv)[3] = mOther
    /\ The(calls[c].argv)[5] =
         <<"Please review this code and identify potential issues, bugs, or areas for improvement.",
           NL, NL, "Specific question: ">> \o pMeta

\* C28: gemini_prompt never attaches files: whatever its arguments, no
\* temporary file is created, no '-a' is passed and nothing is written to
\* the standard input of the process; when prompt is given the call asks
\* for a process with the argument vector [binary, '-m', model, '-p',
\* text], where text is context, a blank line, then prompt when context is
\* not empty, and prompt alone when context is absent or empty, and model
\* is the one given or the default.
C28_PromptIsFileLess ==
  \A c \in Slots :
    IsTool(c, "gemini_prompt") =>
      /\ calls[c].temp_file_list = None
      /\ calls[c].validated_paths = <<>>
      /\ ~Has(c, "created")
      /\ calls[c].input = None
      /\ calls[c].argv # None => Len(The(calls[c].argv)) = 5
      /\ "prompt" \in DOMAIN Arguments(c) =>
           LET context == Argument(c, "context", <<>>)
               text == IF context # <<>>
                         THEN context \o <<NL, NL>> \o Arguments(c)["prompt"]
                         ELSE Arguments(c)["prompt"]
               model == Argument(c, "model", DEFAULT_GEMINI_MODEL)
           IN  /\ Ran(c)
               /\ The(calls[c].run).files = None
               /\ The(calls[c].run).stdin_input = None
               /\ calls[c].argv =
                    Some(<<gemini_path, <<"-", "m">>, model, <<"-", "p">>,
                           text>>)

\* gemini_prompt given a files list and gemini_prompt given a context
\* have had their answer from a process started without '-a'.
C28_Witness ==
  \E c \in Slots :
    /\ IsTool(c, "gemini_prompt")
    /\ Arguments(c) = ("prompt" :> pPlain) @@ ("files" :> <<fRelIn>>)
    /\ calls[c].communicated
    /\ calls[c].outcome.kind = "return"
    /\ The(calls[c].argv) =
         <<gemini_path, <<"-", "m">>, DEFAULT_GEMINI_MODEL, <<"-", "p">>,
           pPlain>>

\* The template of the summary asked for by the call in slot c.
SummaryTemplate(c) ==
  LET summary_type == Argument(c, "summary_type", <<"brief">>)
  IN  CASE summary_type = <<"detailed">> ->
             <<"Please provide a detailed summary of the following content, covering all main points.">>
        [] summary_type = <<"bullet_points">> ->
             <<"Please summarize the following content as bullet points.">>
        [] summary_type = <<"executive">> ->
             <<"Please provide an executive summary of the following content suitable for decision makers.">>
        [] OTHER ->
             <<"Please provide a brief summary of the following content in 2-3 sentences.">>

\* C29: gemini_summarize with a content that is not empty runs without
\* files, also when files is given: the prompt is the template, a blank
\* line, 'Content:' and the content on the next line, no path is
\* validated or checked to exist, no temporary file is created, no '-a'
\* is passed, and no path error is raised whatever files holds.  files is
\* used only when content is absent or empty.  The template is the brief
\* one when summary_type is absent or none of the four known values.
C29_ContentBeforeFiles ==
  \A c \in Slots :
    IsTool(c, "gemini_summarize") =>
      /\ ~AbsentOrEmpty(c, "content") =>
           /\ Ran(c)
           /\ The(calls[c].run).files = None
           /\ The(calls[c].run).prompt =
                SummaryTemplate(c) \o <<NL, NL, "Content:", NL>>
                  \o Arguments(c)["content"]
           /\ calls[c].validated_paths = <<>>
           /\ calls[c].temp_file_list = None
           /\ calls[c].argv # None
           /\ Len(The(calls[c].argv)) = 5
           /\ calls[c].outcome.err.kind \notin PathErrors
      /\ ( AbsentOrEmpty(c, "content") /\ ~AbsentOrEmpty(c, "files") ) =>
           /\ Ran(c)
           /\ The(calls[c].run).files = Some(Arguments(c)["files"])
           /\ The(calls[c].run).prompt = SummaryTemplate(c)
      /\ Ran(c) => SendsPromptAndModel(c)

\* A summary of a content, asked for with a files list that holds a path
\* outside the allow-list, has returned the answer of its process.
C29_Witness ==
  \E c \in Slots :
    /\ IsTool(c, "gemini_summarize")
    /\ Arguments(c) = ("content" :> pPlain) @@ ("files" :> <<fOutside>>)
    /\ ~Contained(Resolve(fOutside).path)
    /\ calls[c].outcome.kind = "return"
    /\ Len(The(calls[c].argv)) = 5

\* C23: when the removal of the temporary file fails, the call ends as it
\* would have with the removal done: with the trimmed standard output of
\* its process when that exited with 0, with the error made from the
\* standard error when it exited otherwise, and, when the call never had
\* the result of a process, with the error of the step that failed (the
\* write, the read-back, the spawn, communicate) or the cancellation; no
\* error about the removal is raised, and the file stays on disk.
C23_RemovalFailureOnlyLogged ==
  \A c \in Slots :
    ( calls[c].pc = "done" /\ Has(c, "remove_failed") ) =>
      LET out == calls[c].outcome
      IN  /\ out.err.kind # "remove"
          /\ ~Has(c, "removed")
          /\ TempOnDisk(c)
          /\ Has(c, "awaited") =>
               LET res == The(calls[c].proc)
               IN  IF res.returncode = 0
                     THEN IF Decode(res.stdout).ok
                            THEN out = Returned(Trimmed(res.stdout))
                            ELSE out = Raised(UnicodeDecodeError)
                     ELSE IF Decode(res.stderr).ok
                            THEN /\ out.kind = "raise"
                                 /\ out.err.type = "RuntimeError"
                                 /\ out.err.text = Trimmed(res.stderr)
                            ELSE out = Raised(UnicodeDecodeError)
          /\ ~Has(c, "awaited") =>
               /\ out.kind = "raise"
               /\ out.err \in
                    IF ~Has(c, "written") THEN {OSError("write")}
                    ELSE IF ~Has(c, "read")
                      THEN {OSError("read"), CancelledError}
                    ELSE IF ~Has(c, "spawned")
                      THEN {OSError("spawn"), CancelledError}
                    ELSE {CommunicateException, CancelledError}

\* A call with files returned the answer of its process although the
\* removal of its listing failed.
C23_Witness ==
  \E c \in Slots :
    /\ calls[c].pc = "done"
    /\ NonEmptyFiles(c)
    /\ Has(c, "remove_failed")
    /\ TempOnDisk(c)
    /\ calls[c].outcome.kind = "return"
    /\ calls[c].outcome.value = <<"o", "k">>

\* The resolved form of the directories d names.
ResolvedEntries(d) == [i \in 1..Len(d) |-> Resolve(d[i]).path]

\* The entries of a separated list: each field without the whitespace at
\* its ends, the fields that are empty then left out, in order.
RECURSIVE Entries(_)
Entries(fields) ==
  IF fields = <<>> THEN <<>>
  ELSE IF Trimmed(Head(fields)) = <<>> THEN Entries(Tail(fields))
  ELSE <<Trimmed(Head(fields))>> \o Entries(Tail(fields))

\* C21: the allow-list of a constructed server is, resolved entry by
\* entry and in order: the allowed_directories argument when one was
\* given, whatever the environment variable holds; otherwise the entries
\* of GEMINI_MCP_ALLOWED_DIRS, split on ':', trimmed, the empty ones
\* dropped, when the variable is set and not empty; otherwise the current
\* working directory alone.  Every entry stored is absolute and resolved.
C21_AllowListPrecedence ==
  server.state = "ready" =>
    /\ allowed_directories =
         IF server.arg # None THEN ResolvedEntries(The(server.arg))
         ELSE IF server.env.dirs # None /\ The(server.env.dirs) # <<>>
           THEN ResolvedEntries(Entries(Split(The(server.env.dirs), ":")))
         ELSE <<Cwd>>
    /\ \A i \in 1..Len(allowed_directories) :
         LET text == Str(allowed_directories[i])
         IN  /\ PurePath(text).abs
             /\ Resolve(text).ok
             /\ Resolve(text).path = allowed_directories[i]

\* A server constructed without the argument, from a variable whose
\* fields carry whitespace and one of which is blank.
C21_Witness ==
  /\ server.state = "ready"
  /\ server.arg = None
  /\ server.env.dirs =
       Some(<<" ", "/", "c", " ", ":", " ", ":", "d", ":", "/", "a", "/", "d",
              "/", ".", ".", NL>>)
  /\ allowed_directories = << <<nC>>, <<nA, nD, nD>>, <<nA>> >>

\* The call in slot c came through the handler of the server.
IsHandler(c) == calls[c].req.kind = "handler"

\* The one text item of the response of the call in slot c.
OneTextItem(c, text) ==
  /\ calls[c].response.kind = "return"
  /\ Len(calls[c].response.value) = 1
  /\ calls[c].response.value[1] = [type |-> "text", text |-> text]

\* C22: a call of the handler that is not cancelled by its caller never
\* raises: whatever the tool name and the arguments, absent arguments
\* being taken as an empty map, it ends with exactly one text item, which
\* is the result of the tool when the tool call returned and 'Error: '
\* followed by the message of the error when it raised (unknown tool,
\* path not allowed, file not found, authentication failure, command
\* failure, missing argument); it returns nothing before the tool call
\* has ended.  (A call cancelled by its caller ends with the
\* cancellation.)
C22_HandlerNeverRaises ==
  \A c \in Slots :
    IsHandler(c) =>
      LET out == calls[c].outcome
      IN  /\ calls[c].pc # "done" => calls[c].response.kind = "pending"
          /\ ( calls[c].pc = "done" /\ out.kind = "return" ) =>
               OneTextItem(c, out.value)
          /\ ( calls[c].pc = "done" /\ out.kind = "raise"
                 /\ out.err # CancelledError ) =>
               /\ OneTextItem(c, <<"Error: ">> \o Message(out.err))
               /\ out.err.kind = "Unknown tool" =>
                    OneTextItem(c, <<"Error: ", "Unknown tool: ",
                                     calls[c].req.name>>)
               /\ out.err.kind = "File does not exist" =>
                    OneTextItem(c, <<"Error: ", "File does not exist: ">>
                                     \o out.err.path)
               /\ out.err.kind = "Gemini CLI error" =>
                    OneTextItem(c, <<"Error: ", "Gemini CLI error: ">>
                                     \o Trimmed(The(calls[c].proc).stderr))
          /\ ( calls[c].pc = "done" /\ out = Raised(CancelledError) ) =>
               calls[c].response = Raised(CancelledError)

\* The handler answered a research whose process failed to authenticate
\* with the one item 'Error: Gemini CLI authentication error: ...'.
C22_Witness ==
  \E c \in Slots :
    /\ IsHandler(c)
    /\ calls[c].req.name = "gemini_research"
    /\ calls[c].outcome.kind = "raise"
    /\ OneTextItem(c, <<"Error: ", "Gemini CLI authentication error: ",
                        "N", "o", "t", " ", "A", "u", "t", "h", "e", "n", "t", "i", "c", "a", "t", "e", "d",
                        NL, "Please run 'gemini auth login' to authenticate.">>)

\* C24: the executable is looked up once, when GeminiTools is
\* constructed: when the lookup finds nothing the construction fails with
\* 'Gemini CLI not found in PATH', and there is no instance, so no call;
\* an instance holds the path found then, and the argument vector of
\* every process asked for or spawned later starts with that path,
\* wherever the executable is found by then.
C24_BinaryLocatedOnce ==
  /\ ( server.state # "none" /\ server.env.which = None ) =>
       /\ server.state = "failed"
       /\ server.error.type = "RuntimeError"
       /\ server.error.kind = "Gemini CLI not found in PATH"
  /\ server.state # "ready" =>
       /\ \A c \in Slots : calls[c].pc = "idle"
       /\ procs = <<>>
  /\ server.state = "ready" =>
       /\ server.env.which # None
       /\ gemini_path = The(server.env.which)
       /\ gemini_path # <<>>
       /\ \A c \in Slots :
            calls[c].argv # None =>
              The(calls[c].argv)[1] = The(server.env.which)
       /\ \A p \in DOMAIN procs : procs[p].argv[1] = The(server.env.which)

\* A process spawned with the path found at construction, after the
\* executable has moved.
C24_Witness ==
  \E c \in Slots :
    /\ server.state = "ready"
    /\ environ.which = Some(LaterGemini)
    /\ server.env.which = Some(WhichGemini)
    /\ calls[c].pc = "communicating"
    /\ calls[c].log = <<"spawned">>
    /\ procs[The(calls[c].pid)].argv[1] = WhichGemini

\* The arguments the tool of the call in slot c is given.
GivenArguments(c) ==
  IF IsHandler(c)
    THEN IF calls[c].req.arguments = None THEN <<>>
         ELSE The(calls[c].req.arguments)
    ELSE calls[c].req.arguments

\* The required arguments of the tools, in the order they are read.
Required(name) ==
  CASE name = "gemini_prompt" -> <<"prompt">>
    [] name = "gemini_research" -> <<"topic">>
    [] name = "gemini_analyze_code" -> <<"files", "analysis_type">>
    [] OTHER -> <<>>

\* The required arguments the call in slot c lacks, in that order.
Lacking(c) ==
  SelectSeq(Required(calls[c].req.name),
            LAMBDA key : key \notin DOMAIN GivenArguments(c))

\* C30: a dispatch that lacks a required argument (prompt for
\* gemini_prompt, topic for gemini_research, files or analysis_type for
\* gemini_analyze_code) raises a KeyError naming the first one missing,
\* with no path validated, no temporary file created and no process
\* spawned, whatever the other arguments hold; through the handler of the
\* server, also when no arguments are given at all, the call ends with
\* the single text item 'Error: ' followed by the quoted name.
C30_MissingArgument ==
  \A c \in Slots :
    ( calls[c].req.kind \in {"tool", "handler"} /\ Lacking(c) # <<>> ) =>
      /\ calls[c].pc = "done"
      /\ calls[c].outcome.kind = "raise"
      /\ calls[c].outcome.err.type = "KeyError"
      /\ calls[c].outcome.err.text = <<Lacking(c)[1]>>
      /\ NothingDone(c)
      /\ \A n \in TempNames : n \notin DOMAIN tmpdir
      /\ IsHandler(c) =>
           OneTextItem(c, <<"Error: ", "'", Lacking(c)[1], "'">>)

\* An analysis asked through the handler without analysis_type, for a
\* file outside the allow-list: the answer names the argument, not the
\* path.
C30_Witness ==
  \E c \in Slots :
    /\ IsHandler(c)
    /\ calls[c].req.name = "gemini_analyze_code"
    /\ calls[c].req.arguments = Some("files" :> <<fOutside>>)
    /\ ~Contained(Resolve(fOutside).path)
    /\ OneTextItem(c, <<"Error: ", "'", "analysis_type", "'">>)

====
